---- MODULE Spec2Model ----
(***************************************************************************)
(* Genotype variation engine of evodex (src/evodex/evolution): mutation,   *)
(* record-aligned crossover, tree projection and the genome codec, over    *)
(* the planar robot schema of src/evodex/evolution/robot.py.               *)
(*                                                                         *)
(* Pydantic objects live in an object heap (a sequence of objects, a       *)
(* reference is an index), so that setattr, copy.deepcopy and aliasing are *)
(* modelled as the code performs them.  Numbers are fixed-point integers   *)
(* in units of 1/ONE.                                                      *)
(***************************************************************************)
EXTENDS Integers, Sequences, FiniteSets, TLC

(***************************************************************************)
(* Bounds of the model.                                                    *)
(***************************************************************************)
\* number of distinct raw outcomes of one draw of the random source
RawLevels == 3
\* number of seeds of the random source a call may start from
NumSeeds == 9
\* cap on the number of variation calls in one behaviour
MaxOps == 2
\* max_len of the PARALLEL list gene "fingers", scaled down
MaxFingers == 2
\* max_len of the CHAIN list gene "segments", scaled down
MaxSegments == 2

(***************************************************************************)
(* Numbers.                                                                *)
(***************************************************************************)
\* fixed-point unit: the integer n stands for the real n / ONE
ONE == 2^20

Min(x, y) == IF x <= y THEN x ELSE y
Max(x, y) == IF x >= y THEN x ELSE y
Abs(x) == IF x < 0 THEN -x ELSE x

\* a clamp that forgets the upper bound
clip_noupper(x, lo, hi) == Max(lo, x)
\* a clamp that forgets the lower bound
clip_nolower(x, lo, hi) == Min(hi, x)
\* np.clip(x, lo, hi)
clip(x, lo, hi) == Min(hi, Max(lo, x))

\* math.pi in fixed point
Pi == 3294199

\* x / d rounded to the nearest integer, ties to even (Python round, IEEE)
RoundDiv(x, d) ==
    LET q == x \div d
        r == x % d
    IN  IF 2 * r > d \/ (2 * r = d /\ q % 2 = 1) THEN q + 1 ELSE q

RECURSIVE ShiftOf(_)
\* number of low bits a float32 significand (24 bits) cannot hold of n >= 0
ShiftOf(n) == IF n < 2^24 THEN 0 ELSE 1 + ShiftOf(n \div 2)

\* np.float32(x): round to 24 significant bits, ties to even
float32(x) ==
    LET n == Abs(x)
        s == ShiftOf(n)
        m == RoundDiv(n, 2^s) * 2^s
    IN  IF x < 0 THEN -m ELSE m

(***************************************************************************)
(* Schema: record types, declared field order, field kinds and gene        *)
(* annotations.                                                            *)
(***************************************************************************)
Robot == "EvolvableRobotConfig"
Base == "EvolvableBaseConfig"
Finger == "EvolvableFingerConfig"
Segment == "EvolvableSegmentConfig"
Limits == "ActionLimitsConfig"
\* config.py: the record types the Evolvable* types derive from
PlainRobot == "RobotConfig"
PlainBase == "BaseConfig"
PlainFinger == "FingerConfig"
PlainSegment == "SegmentConfig"
\* isaac/robot/evolvable.py: the record types of the 3D robot
IsaacRobot == "isaac.EvolvableRobotConfig"
IsaacBase == "isaac.EvolvableBaseConfig"
IsaacFinger == "isaac.EvolvableFingerConfig"
IsaacAttachment == "isaac.EvolvableFingerAttachmentConfig"
IsaacLink == "isaac.EvolvableLinkConfig"
IsaacSphere == "isaac.EvolvableSphereConfig"
\* a record type with a gene on an int field and a gene on a float field,
\* the two kinds core.py 111 tells apart
Counted == "CountedConfig"

\* model_fields of each record type, in declaration order
FieldsOf(cls) ==
    CASE cls \in {Robot, PlainRobot} -> <<"base", "fingers", "limits">>
      [] cls \in {Base, PlainBase} -> <<"width", "height", "mass">>
      [] cls \in {Finger, PlainFinger} -> <<"segments", "defaults">>
      [] cls \in {Segment, PlainSegment} ->
            <<"length", "width", "mass", "motor_stiffness",
              "motor_damping", "joint_angle_limit">>
      [] cls = Limits -> <<"velocity", "omega", "motor_rate">>
      [] cls = IsaacRobot -> <<"base", "fingers">>
      [] cls \in {IsaacBase, IsaacLink} -> <<"name", "mass", "geometry">>
      [] cls = IsaacFinger ->
            <<"defaults", "attachment", "segments", "fingertip">>
      [] cls = IsaacAttachment ->
            <<"angle", "radius", "z_offset", "yaw_offset">>
      [] cls = IsaacSphere -> <<"type", "radius">>
      [] cls = Counted -> <<"count", "scale">>

\* what a field holds: "model" a nested BaseModel, "tuple" a tuple of
\* BaseModels, "num" a float, "opaque" any other value
FieldType(cls, f) ==
    CASE cls \in {Robot, PlainRobot} /\ f = "base" -> "model"
      [] cls \in {Robot, PlainRobot} /\ f = "fingers" -> "tuple"
      [] cls \in {Robot, PlainRobot} /\ f = "limits" -> "model"
      [] cls \in {Finger, PlainFinger} /\ f = "segments" -> "tuple"
      [] cls \in {Finger, PlainFinger} /\ f = "defaults" -> "opaque"
      [] cls \in {Segment, PlainSegment} /\ f = "joint_angle_limit" ->
            "opaque"
      [] cls = Limits -> "opaque"
      [] cls = IsaacRobot /\ f = "base" -> "model"
      [] cls = IsaacRobot /\ f = "fingers" -> "tuple"
      [] cls \in {IsaacBase, IsaacLink} /\ f = "name" -> "opaque"
      [] cls \in {IsaacBase, IsaacLink} /\ f = "geometry" -> "model"
      [] cls = IsaacFinger /\ f \in {"defaults", "fingertip"} -> "opaque"
      [] cls = IsaacFinger /\ f = "attachment" -> "model"
      [] cls = IsaacFinger /\ f = "segments" -> "tuple"
      [] cls = IsaacSphere /\ f = "type" -> "opaque"
      [] OTHER -> "num"

\* the record type of a nested field or of the elements of a tuple field
ItemType(cls, f) ==
    CASE cls = Robot /\ f = "base" -> Base
      [] cls = Robot /\ f = "fingers" -> Finger
      [] cls = Robot /\ f = "limits" -> Limits
      [] cls = Finger /\ f = "segments" -> Segment
      [] cls = PlainRobot /\ f = "base" -> PlainBase
      [] cls = PlainRobot /\ f = "fingers" -> PlainFinger
      [] cls = PlainRobot /\ f = "limits" -> Limits
      [] cls = PlainFinger /\ f = "segments" -> PlainSegment
      [] cls = IsaacRobot /\ f = "base" -> IsaacBase
      [] cls = IsaacRobot /\ f = "fingers" -> IsaacFinger
      [] cls \in {IsaacBase, IsaacLink} /\ f = "geometry" -> IsaacSphere
      [] cls = IsaacFinger /\ f = "attachment" -> IsaacAttachment
      [] cls = IsaacFinger /\ f = "segments" -> IsaacLink

\* record types that derive from EvolvableConfig
IsEvolvable(cls) ==
    cls \in {Robot, Base, Finger, Segment, IsaacRobot, IsaacBase,
             IsaacFinger, IsaacAttachment, IsaacLink, IsaacSphere}

NoGene == [kind |-> "None"]
Gene(std, lo, hi) ==
    [kind |-> "Gene", mutation_std |-> std, min_val |-> lo, max_val |-> hi]
\* add_prob and remove_prob are in thousandths
GeneList(st, lo, hi, ap, rp) ==
    [kind |-> "GeneList", structure |-> st, min_len |-> lo, max_len |-> hi,
     add_prob |-> ap, remove_prob |-> rp]

\* the gene annotation of a field (the _genes tables)
GeneOf(cls, f) ==
    CASE cls = Base /\ f = "width" -> Gene(1 * ONE, 10 * ONE, 50 * ONE)
      [] cls = Base /\ f = "height" -> Gene(2 * ONE, 20 * ONE, 150 * ONE)
      [] cls = Segment /\ f = "length" -> Gene(2 * ONE, 20 * ONE, 120 * ONE)
      [] cls = Segment /\ f = "width" -> Gene(1 * ONE, 5 * ONE, 30 * ONE)
      [] cls = Finger /\ f = "segments" ->
            GeneList("CHAIN", 1, MaxSegments, 100, 100)
      [] cls = Robot /\ f = "fingers" ->
            GeneList("PARALLEL", 1, MaxFingers, 100, 50)
      [] cls = IsaacSphere /\ f = "radius" ->
            Gene(RoundDiv(ONE, 50), RoundDiv(ONE, 200), RoundDiv(ONE, 10))
      [] cls = IsaacAttachment /\ f = "angle" ->
            Gene(RoundDiv(ONE, 10), -Pi, Pi)
      [] cls = IsaacAttachment /\ f = "radius" ->
            Gene(RoundDiv(ONE, 50), RoundDiv(ONE, 50), RoundDiv(ONE, 5))
      [] cls = IsaacAttachment /\ f = "yaw_offset" ->
            Gene(RoundDiv(ONE, 10), -Pi, Pi)
      [] cls = IsaacFinger /\ f = "segments" ->
            GeneList("CHAIN", 1, MaxSegments, 100, 100)
      [] cls = IsaacRobot /\ f = "fingers" ->
            GeneList("PARALLEL", 1, MaxFingers, 100, 50)
      [] cls = Counted /\ f = "count" -> Gene(ONE \div 2, 0, 3 * ONE)
      [] cls = Counted /\ f = "scale" -> Gene(ONE \div 2, 0, 3 * ONE)
      [] OTHER -> NoGene

\* a lookup that takes any metadata of a float field for a scalar gene
mutation_metadata_any(cls, f) ==
    IF GeneOf(cls, f).kind = "None" /\ FieldType(cls, f) = "num"
    THEN Gene(ONE, 0, 1000 * ONE)
    ELSE GeneOf(cls, f)
\* core.py 20-27: the Gene or GeneList found in the field's metadata
mutation_metadata(cls, f) == GeneOf(cls, f)
\* core.py 83
crossover_metadata(cls, f) == GeneOf(cls, f)

(***************************************************************************)
(* Object heap.  An object is [cls, val]; val maps each field to a number, *)
(* an opaque value, a reference (nested record) or a sequence of           *)
(* references (tuple of records).                                          *)
(***************************************************************************)
Alloc(h, obj) == [h |-> Append(h, obj), r |-> Len(h) + 1]
getattr(h, r, f) == h[r].val[f]
setattr(h, r, f, v) == [h EXCEPT ![r].val[f] = v]

RECURSIVE deepcopy(_, _)
RECURSIVE deepcopy_fields(_, _)
RECURSIVE deepcopy_items(_, _)

\* the copy c of the next element joins the copies D.r
deepcopy_item_done(c, D, refs) ==
    deepcopy_items([h |-> c.h, r |-> Append(D.r, c.r)], refs)

\* copies of the objects refs, in order; D = [h, r]: the heap and the
\* copies made so far
deepcopy_items(D, refs) ==
    IF Len(D.r) >= Len(refs) THEN D
    ELSE deepcopy_item_done(deepcopy(D.h, refs[Len(D.r) + 1]), D, refs)

\* the copy c replaces the value of field D.i; go on with the next field
deepcopy_field_done(c, D, cls) ==
    deepcopy_fields([h |-> c.h,
                     r |-> [D.r EXCEPT ![FieldsOf(cls)[D.i]] = c.r],
                     i |-> D.i + 1], cls)

\* the nested objects of the fields D.i.. replaced by copies; D = [h, r, i]:
\* the heap, the field values of the copy and the next field
deepcopy_fields(D, cls) ==
    IF D.i > Len(FieldsOf(cls)) THEN D
    ELSE IF FieldType(cls, FieldsOf(cls)[D.i]) = "model"
    THEN deepcopy_field_done(deepcopy(D.h, D.r[FieldsOf(cls)[D.i]]), D, cls)
    ELSE IF FieldType(cls, FieldsOf(cls)[D.i]) = "tuple"
    THEN deepcopy_field_done(
             deepcopy_items([h |-> D.h, r |-> <<>>], D.r[FieldsOf(cls)[D.i]]),
             D, cls)
    ELSE deepcopy_fields([D EXCEPT !.i = D.i + 1], cls)

\* the object of class cls built from the copied fields c
deepcopy_alloc(c, cls) == Alloc(c.h, [cls |-> cls, val |-> c.r])

\* a copy that hands back the object itself
deepcopy_alias(h, r) == [h |-> h, r |-> r]
\* copy.deepcopy(obj): a fresh object graph equal to the one below r
deepcopy(h, r) ==
    deepcopy_alloc(deepcopy_fields([h |-> h, r |-> h[r].val, i |-> 1],
                                   h[r].cls),
                   h[r].cls)

(***************************************************************************)
(* Genotype values.  Between calls a genotype is kept as a nested value    *)
(* [cls, val]; Load builds its object graph, Read reads one back.          *)
(***************************************************************************)
RECURSIVE Load(_, _)
RECURSIVE LoadFields(_, _)
RECURSIVE LoadItems(_, _)

LoadItemDone(c, D, vs) == LoadItems([h |-> c.h, r |-> Append(D.r, c.r)], vs)

LoadItems(D, vs) ==
    IF Len(D.r) >= Len(vs) THEN D
    ELSE LoadItemDone(Load(D.h, vs[Len(D.r) + 1]), D, vs)

LoadFieldDone(c, D, cls) ==
    LoadFields([h |-> c.h, r |-> [D.r EXCEPT ![FieldsOf(cls)[D.i]] = c.r],
                i |-> D.i + 1], cls)

LoadFields(D, cls) ==
    IF D.i > Len(FieldsOf(cls)) THEN D
    ELSE IF FieldType(cls, FieldsOf(cls)[D.i]) = "model"
    THEN LoadFieldDone(Load(D.h, D.r[FieldsOf(cls)[D.i]]), D, cls)
    ELSE IF FieldType(cls, FieldsOf(cls)[D.i]) = "tuple"
    THEN LoadFieldDone(LoadItems([h |-> D.h, r |-> <<>>],
                                 D.r[FieldsOf(cls)[D.i]]), D, cls)
    ELSE LoadFields([D EXCEPT !.i = D.i + 1], cls)

Load(h, g) ==
    deepcopy_alloc(LoadFields([h |-> h, r |-> g.val, i |-> 1], g.cls), g.cls)

RECURSIVE Read(_, _)
Read(h, r) ==
    [cls |-> h[r].cls,
     val |-> [f \in DOMAIN h[r].val |->
                IF FieldType(h[r].cls, f) = "model" THEN Read(h, h[r].val[f])
                ELSE IF FieldType(h[r].cls, f) = "tuple"
                THEN [k \in 1..Len(h[r].val[f]) |-> Read(h, h[r].val[f][k])]
                ELSE h[r].val[f]]]

(***************************************************************************)
(* Random source.  np.random.seed(seed) fixes the stream of raw draws;     *)
(* every numpy draw is a function of the next raw draw of the stream.      *)
(***************************************************************************)
Raws == 0..(RawLevels - 1)
Seeds == 0..(NumSeeds - 1)
\* raw draw number n (from 0) of the stream of a seed: the streams start at
\* seed % RawLevels and advance by 1 + seed \div RawLevels
Draw(seed, n) == (seed + n * (1 + (seed \div RawLevels))) % RawLevels

\* np.random.rand() < prob, prob in thousandths
Fires(raw, prob) == raw * 1000 < prob * RawLevels
\* standard normal deviate of a raw draw: 0, +1, -1, +2, -2, ...
Deviate(raw) == IF raw % 2 = 1 THEN (raw + 1) \div 2 ELSE -(raw \div 2)
\* np.random.normal(0, std)
normal(raw, std) == std * Deviate(raw)
\* np.random.randint(0, high)
randint(raw, high) == raw % high

(***************************************************************************)
(* apply_mutations (core.py).  S = [h, n, log, ev]: the heap, the number   *)
(* of draws consumed, a record of every scalar perturbation or blend       *)
(* (where, the values read, the draw) and a record of every list gene      *)
(* visited; a call returns S and r, the returned object.                   *)
(***************************************************************************)
Step(f, k) == [f |-> f, k |-> k]
Ret(S, r) == [h |-> S.h, n |-> S.n, log |-> S.log, ev |-> S.ev, r |-> r]
Sof(res) == [h |-> res.h, n |-> res.n, log |-> res.log, ev |-> res.ev]
\* setattr(obj, f, res.r) after the call that returned res
Assign(res, obj, f) == [Sof(res) EXCEPT !.h = setattr(res.h, obj, f, res.r)]
\* the path of element i of the list field a path ends in
ItemPath(path, i) == [path EXCEPT ![Len(path)] = Step(path[Len(path)].f, i)]

RemoveAt(s, i) == SubSeq(s, 1, i - 1) \o SubSeq(s, i + 1, Len(s))

\* core.py 35-37 for the noise drawn
perturb(S, m, f, gene, path, current_value, noise) ==
    [S EXCEPT !.h = setattr(S.h, m, f,
                            clip(current_value + noise, gene.min_val,
                                 gene.max_val)),
              !.n = S.n + 1,
              !.log = Append(S.log, [path |-> Append(path, Step(f, 0)),
                                     v |-> current_value, d |-> noise])]

\* noise drawn at a place of the stream that moves with the identity of the
\* object mutated
mutate_allele_by_identity(S, seed, m, f, gene, path) ==
    perturb(S, m, f, gene, path, getattr(S.h, m, f),
            normal(Draw(seed, S.n + m), gene.mutation_std))
\* core.py 32-37: Gaussian noise, clamp
mutate_allele(S, seed, m, f, gene, path) ==
    perturb(S, m, f, gene, path, getattr(S.h, m, f),
            normal(Draw(seed, S.n), gene.mutation_std))

\* core.py 52-54: append a deep copy cp of the chosen element
add_element(cp, S, mutable_list) ==
    [h |-> cp.h, n |-> S.n + 2, list |-> Append(mutable_list, cp.r),
     fired |-> TRUE, done |-> TRUE]

\* core.py 47-54: the add step on mutable_list
chromosome_add(S, seed, gene, mutable_list) ==
    IF /\ Fires(Draw(seed, S.n), gene.add_prob)
       /\ Len(mutable_list) < gene.max_len
       /\ Len(mutable_list) > 0
    THEN add_element(
             deepcopy(S.h, mutable_list[randint(Draw(seed, S.n + 1),
                                                Len(mutable_list)) + 1]),
             S, mutable_list)
    ELSE [h |-> S.h, n |-> S.n + 1, list |-> mutable_list,
          fired |-> Fires(Draw(seed, S.n), gene.add_prob), done |-> FALSE]

\* core.py 57-64: the remove step on the list A the add step left, setattr
chromosome_remove(A, S, seed, m, f, gene, path, removes) ==
    [S EXCEPT
       !.h = setattr(A.h, m, f,
                     IF removes
                     THEN RemoveAt(A.list,
                                   randint(Draw(seed, A.n + 1), Len(A.list)) + 1)
                     ELSE A.list),
       !.n = IF removes THEN A.n + 2 ELSE A.n + 1,
       !.ev = Append(S.ev, [path |-> Append(path, Step(f, 0)),
                            len0 |-> Len(getattr(S.h, m, f)),
                            addFired |-> A.fired,
                            added |-> A.done,
                            removeFired |->
                                Fires(Draw(seed, A.n), gene.remove_prob),
                            removed |-> removes,
                            len2 |-> IF removes THEN Len(A.list) - 1
                                     ELSE Len(A.list)])]

\* core.py 57-60: whether the remove step acts on the list A
chromosome_removes(A, seed, gene) ==
    /\ Fires(Draw(seed, A.n), gene.remove_prob)
    /\ Len(A.list) > gene.min_len

\* core.py 40-64 after the add step
chromosome_added(A, S, seed, m, f, gene, path) ==
    chromosome_remove(A, S, seed, m, f, gene, path,
                      chromosome_removes(A, seed, gene))

\* core.py 40-64: structural add and remove of one element
mutate_chromosome(S, seed, m, f, gene, path) ==
    chromosome_added(chromosome_add(S, seed, gene, getattr(S.h, m, f)),
                     S, seed, m, f, gene, path)

RECURSIVE apply_mutations(_, _, _, _)
RECURSIVE mutate_fields(_, _, _, _, _)
RECURSIVE mutate_items(_, _, _, _)

\* the mutated element res.r joins mutated_list
mutate_item_done(res, M, seed, items, path) ==
    mutate_items(Ret(res, Append(M.r, res.r)), seed, items, path)

\* core.py 70-73: [apply_mutations(item) for item in current_value]; M.r is
\* mutated_list so far
mutate_items(M, seed, items, path) ==
    IF Len(M.r) >= Len(items) THEN M
    ELSE mutate_item_done(apply_mutations(Sof(M), seed, items[Len(M.r) + 1],
                                          ItemPath(path, Len(M.r) + 1)),
                          M, seed, items, path)

\* core.py 30-64: the gene step of field f
mutate_gene(S, seed, m, f, gene_metadata, path) ==
    IF gene_metadata.kind = "Gene"
    THEN mutate_allele(S, seed, m, f, gene_metadata, path)
    ELSE IF gene_metadata.kind = "GeneList"
            /\ FieldType(S.h[m].cls, f) = "tuple"
    THEN mutate_chromosome(S, seed, m, f, gene_metadata, path)
    ELSE S

\* a recursion step that enters nested records but no list
mutate_nested_records(S1, seed, m, f, current_value, path) ==
    IF FieldType(S1.h[m].cls, f) = "model"
    THEN Assign(apply_mutations(S1, seed, current_value,
                                Append(path, Step(f, 0))), m, f)
    ELSE S1
\* core.py 66-74: the recursion step of field f, on the value the field held
\* before the gene step
mutate_nested(S1, seed, m, f, current_value, path) ==
    IF FieldType(S1.h[m].cls, f) = "model"
    THEN Assign(apply_mutations(S1, seed, current_value,
                                Append(path, Step(f, 0))), m, f)
    ELSE IF FieldType(S1.h[m].cls, f) = "tuple"
    THEN Assign(mutate_items(Ret(S1, <<>>), seed, current_value,
                             Append(path, Step(f, 1))), m, f)
    ELSE S1

\* core.py 19-74: one iteration of the loop over model_fields
mutate_field(S, seed, m, f, path) ==
    mutate_nested(mutate_gene(S, seed, m, f,
                              mutation_metadata(S.h[m].cls, f), path),
                  seed, m, f, getattr(S.h, m, f), path)

\* core.py 19-74: the loop over model_fields, from field i on
mutate_fields(S, seed, m, i, path) ==
    IF i > Len(FieldsOf(S.h[m].cls)) THEN S
    ELSE mutate_fields(mutate_field(S, seed, m, FieldsOf(S.h[m].cls)[i], path),
                       seed, m, i + 1, path)

\* core.py 19-76 on the copy
mutate_copy(mutated_config, S, seed, path) ==
    Ret(mutate_fields([S EXCEPT !.h = mutated_config.h], seed,
                      mutated_config.r, 1, path),
        mutated_config.r)

\* core.py 12-76
apply_mutations(S, seed, config, path) ==
    mutate_copy(deepcopy(S.h, config), S, seed, path)

(***************************************************************************)
(* apply_crossover (core.py).                                              *)
(***************************************************************************)
\* core.py 111: field_info.annotation is int
IsIntField(cls, f) == cls = Counted /\ f = "count"

\* core.py 111-112: int(round(new_val)) for an int field
round_if_int(new_val, isint) ==
    IF isint THEN RoundDiv(new_val, ONE) * ONE ELSE new_val

\* core.py 107-112: alpha * val_a + (1 - alpha) * val_b, alpha = raw/RawLevels
blend(raw, val_a, val_b, isint) ==
    round_if_int(RoundDiv(raw * val_a + (RawLevels - raw) * val_b, RawLevels),
                 isint)

\* a cap that never truncates
cap_off(new_list, max_len) == new_list
\* core.py 96-98: truncate to max_len
cap(new_list, max_len) ==
    IF Len(new_list) > max_len THEN SubSeq(new_list, 1, max_len) ELSE new_list

\* a splice that keeps all of parent B after the prefix of A, without the cap
splice_uncapped(list_a, list_b, crossover_point, max_len) ==
    SubSeq(list_a, 1, crossover_point) \o list_b

\* a splice that takes the elements of B from its start
splice_from_start(list_a, list_b, crossover_point, max_len) ==
    cap(SubSeq(list_a, 1, crossover_point)
        \o SubSeq(list_b, 1, Len(list_b) - crossover_point), max_len)

\* core.py 94-98: prefix of A, suffix of B, truncated to max_len
splice(list_a, list_b, crossover_point, max_len) ==
    cap(SubSeq(list_a, 1, crossover_point)
        \o SubSeq(list_b, crossover_point + 1, Len(list_b)), max_len)

\* core.py 93-100 for the parents' lists
cross_lists(S, seed, child, f, gene, list_a, list_b, path) ==
    IF Len(list_a) > 0 /\ Len(list_b) > 0
    THEN [S EXCEPT
            !.h = setattr(S.h, child, f,
                          splice(list_a, list_b,
                                 randint(Draw(seed, S.n),
                                         Min(Len(list_a), Len(list_b))),
                                 gene.max_len)),
            !.n = S.n + 1,
            !.ev = Append(S.ev, [path |-> Append(path, Step(f, 0)),
                                 lenA |-> Len(list_a),
                                 lenB |-> Len(list_b),
                                 cut |-> randint(Draw(seed, S.n),
                                                 Min(Len(list_a), Len(list_b)))])]
    ELSE S

\* core.py 88-100: one-point crossover of a list gene
cross_chromosome(S, seed, child, f, gene, parent_a, parent_b, path) ==
    cross_lists(S, seed, child, f, gene, getattr(S.h, parent_a, f),
                getattr(S.h, parent_b, f), path)

\* core.py 107-114 for the parents' values
cross_values(S, seed, child, f, val_a, val_b, path) ==
    [S EXCEPT !.h = setattr(S.h, child, f,
                            blend(Draw(seed, S.n), val_a, val_b,
                                  IsIntField(S.h[child].cls, f))),
              !.n = S.n + 1,
              !.log = Append(S.log, [path |-> Append(path, Step(f, 0)),
                                     va |-> val_a, vb |-> val_b,
                                     raw |-> Draw(seed, S.n)])]

\* core.py 103-114: arithmetic blending of a scalar gene
cross_allele(S, seed, child, f, parent_a, parent_b, path) ==
    cross_values(S, seed, child, f, getattr(S.h, parent_a, f),
                 getattr(S.h, parent_b, f), path)

RECURSIVE apply_crossover(_, _, _, _, _)
RECURSIVE cross_fields(_, _, _, _, _, _, _)
RECURSIVE cross_items(_, _, _, _, _)

\* the crossed element res.r joins crossed_list
cross_item_done(res, M, seed, list_a, list_b, path) ==
    cross_items(Ret(res, Append(M.r, res.r)), seed, list_a, list_b, path)

\* core.py 126-135: elementwise crossover over the overlapping prefix; M.r
\* is crossed_list so far
cross_items(M, seed, list_a, list_b, path) ==
    IF Len(M.r) >= Min(Len(list_a), Len(list_b)) THEN M
    ELSE cross_item_done(apply_crossover(Sof(M), seed, list_a[Len(M.r) + 1],
                                         list_b[Len(M.r) + 1],
                                         ItemPath(path, Len(M.r) + 1)),
                         M, seed, list_a, list_b, path)

\* core.py 137-140: the excess tail of the longer parent list
excess_tail(list_a, list_b) ==
    IF Len(list_a) > Len(list_b)
    THEN SubSeq(list_a, Len(list_b) + 1, Len(list_a))
    ELSE SubSeq(list_b, Len(list_a) + 1, Len(list_b))

\* core.py 137-142: extend the crossed prefix res.r with the tail, setattr
cross_list_done(res, child, f, list_a, list_b) ==
    [Sof(res) EXCEPT
       !.h = setattr(res.h, child, f, res.r \o excess_tail(list_a, list_b))]

\* core.py 122-142: a non-gene list of records
cross_plain_list(S, seed, child, f, list_a, list_b, path) ==
    cross_list_done(cross_items(Ret(S, <<>>), seed, list_a, list_b,
                                Append(path, Step(f, 1))),
                    child, f, list_a, list_b)

\* core.py 86-142: one iteration of the loop over model_fields
cross_field(S, seed, child, parent_a, parent_b, f, gene_metadata, path) ==
    IF gene_metadata.kind = "GeneList"
    THEN IF FieldType(S.h[child].cls, f) = "tuple"
         THEN cross_chromosome(S, seed, child, f, gene_metadata,
                               parent_a, parent_b, path)
         ELSE S
    ELSE IF gene_metadata.kind = "Gene"
    THEN cross_allele(S, seed, child, f, parent_a, parent_b, path)
    ELSE IF FieldType(S.h[child].cls, f) = "model"
    THEN Assign(apply_crossover(S, seed, getattr(S.h, parent_a, f),
                                getattr(S.h, parent_b, f),
                                Append(path, Step(f, 0))), child, f)
    ELSE IF FieldType(S.h[child].cls, f) = "tuple"
    THEN cross_plain_list(S, seed, child, f, getattr(S.h, parent_a, f),
                          getattr(S.h, parent_b, f), path)
    ELSE S

\* core.py 82-142: the loop over model_fields, from field i on
cross_fields(S, seed, child, parent_a, parent_b, i, path) ==
    IF i > Len(FieldsOf(S.h[child].cls)) THEN S
    ELSE cross_fields(
             cross_field(S, seed, child, parent_a, parent_b,
                         FieldsOf(S.h[child].cls)[i],
                         crossover_metadata(S.h[child].cls,
                                            FieldsOf(S.h[child].cls)[i]),
                         path),
             seed, child, parent_a, parent_b, i + 1, path)

\* core.py 82-144 on the copy
cross_copy(child_config, S, seed, parent_a, parent_b, path) ==
    Ret(cross_fields([S EXCEPT !.h = child_config.h], seed, child_config.r,
                     parent_a, parent_b, 1, path),
        child_config.r)

\* core.py 79-144
apply_crossover(S, seed, parent_a, parent_b, path) ==
    cross_copy(deepcopy(S.h, parent_a), S, seed, parent_a, parent_b, path)

(***************************************************************************)
(* Tree projector (tree.py).  A node is [data, field_name, children,       *)
(* parent]: data a reference into the object heap, children a sequence of  *)
(* node ids, parent a node id or 0 for None.  T = [h, nodes]; a call       *)
(* returns T and r, the node or the record it returns.                     *)
(***************************************************************************)
\* the field names of the _genes table of a record type, in declared order
GenesOf(cls) ==
    CASE cls = Base -> <<"width", "height">>
      [] cls = Segment -> <<"length", "width">>
      [] cls = Finger -> <<"segments">>
      [] cls = Robot -> <<"fingers">>
      [] cls = IsaacSphere -> <<"radius">>
      [] cls = IsaacAttachment -> <<"angle", "radius", "yaw_offset">>
      [] cls = IsaacFinger -> <<"segments">>
      [] cls = IsaacRobot -> <<"fingers">>
      [] OTHER -> <<>>

\* tree.py 11-15: Node.__init__
Node(data, field_name) ==
    [data |-> data, field_name |-> field_name, children |-> <<>>, parent |-> 0]

\* an add_child that does not set the child's parent
add_child_unlinked(nodes, parent, child) ==
    [nodes EXCEPT ![parent].children = Append(@, child)]
\* tree.py 17-19: Node.add_child
add_child(nodes, parent, child) ==
    [nodes EXCEPT ![parent].children = Append(@, child),
                  ![child].parent = parent]

TRet(T, r) == [h |-> T.h, nodes |-> T.nodes, r |-> r]
Tof(res) == [h |-> res.h, nodes |-> res.nodes]

\* parent.add_child(res.r) after the call that returned the node res.r
child_added(res, parent) ==
    [h |-> res.h, nodes |-> add_child(res.nodes, parent, res.r)]

\* a projection that hangs every element of a list under the owning node
next_parent_flat(structure, parent, child_node) == parent

\* tree.py 33, 39-40: the node the next element of the list is attached to
next_parent(structure, parent, child_node) ==
    IF structure = "CHAIN" THEN child_node ELSE parent

RECURSIVE config_to_tree(_, _, _)
RECURSIVE tree_of_list(_, _, _, _)
RECURSIVE tree_of_genes(_, _, _, _)
RECURSIVE tree_of_fields(_, _, _, _)

\* tree.py 32-33, 38-40: the node res.r of element L.k is attached to
\* current_parent_node
list_child_done(res, L, child_list, f, structure) ==
    tree_of_list([h |-> res.h,
                  nodes |-> add_child(res.nodes, L.r, res.r),
                  r |-> next_parent(structure, L.r, res.r),
                  k |-> L.k + 1],
                 child_list, f, structure)

\* tree.py 29-40: the loop over child_list; L = [h, nodes, r, k]: the heaps,
\* current_parent_node and the next element
tree_of_list(L, child_list, f, structure) ==
    IF L.k > Len(child_list) THEN L
    ELSE list_child_done(config_to_tree(Tof(L), child_list[L.k], f), L,
                         child_list, f, structure)

\* tree.py 25-40: the loop over config._genes, from entry i on
tree_of_genes(T, config, root, i) ==
    IF i > Len(GenesOf(T.h[config].cls)) THEN T
    ELSE IF GeneOf(T.h[config].cls, GenesOf(T.h[config].cls)[i]).kind
               = "GeneList"
    THEN tree_of_genes(
             tree_of_list([h |-> T.h, nodes |-> T.nodes, r |-> root, k |-> 1],
                          getattr(T.h, config, GenesOf(T.h[config].cls)[i]),
                          GenesOf(T.h[config].cls)[i],
                          GeneOf(T.h[config].cls,
                                 GenesOf(T.h[config].cls)[i]).structure),
             config, root, i + 1)
    ELSE tree_of_genes(T, config, root, i + 1)

\* tree.py 44-47: is field f a nested evolvable record outside _genes
IsPlainChild(h, config, f) ==
    /\ GeneOf(h[config].cls, f).kind = "None"
    /\ FieldType(h[config].cls, f) = "model"
    /\ IsEvolvable(h[getattr(h, config, f)].cls)

\* tree.py 42-47: the loop over model_fields, from field i on
tree_of_fields(T, config, root, i) ==
    IF i > Len(FieldsOf(T.h[config].cls)) THEN T
    ELSE IF IsPlainChild(T.h, config, FieldsOf(T.h[config].cls)[i])
    THEN tree_of_fields(
             child_added(config_to_tree(T, getattr(T.h, config,
                                            FieldsOf(T.h[config].cls)[i]),
                                        FieldsOf(T.h[config].cls)[i]),
                         root),
             config, root, i + 1)
    ELSE tree_of_fields(T, config, root, i + 1)

\* tree.py 23-49 with the root node in place
tree_of_root(T, config, root) ==
    TRet(tree_of_fields(tree_of_genes(T, config, root, 1), config, root, 1),
         root)

\* tree.py 23: root = Node(copy.deepcopy(config), field_name)
root_node(c, T, config, field_name) ==
    tree_of_root([h |-> c.h,
                  nodes |-> Append(T.nodes, Node(c.r, field_name))],
                 config, Len(T.nodes) + 1)

\* tree.py 22-49
config_to_tree(T, config, field_name) ==
    root_node(deepcopy(T.h, config), T, config, field_name)

RECURSIVE field_names(_, _, _)
\* tree.py 55-59: the keys of children_by_field, in order of first appearance
field_names(nodes, children, acc) ==
    IF children = <<>> THEN acc
    ELSE field_names(nodes, Tail(children),
                     IF \E k \in 1..Len(acc) :
                           acc[k] = nodes[Head(children)].field_name
                     THEN acc
                     ELSE Append(acc, nodes[Head(children)].field_name))

RECURSIVE children_of(_, _, _)
\* tree.py 55-59: children_by_field[f]; line 73-80 takes its first element
children_of(nodes, children, f) ==
    IF children = <<>> THEN <<>>
    ELSE IF nodes[Head(children)].field_name = f
    THEN <<Head(children)>> \o children_of(nodes, Tail(children), f)
    ELSE children_of(nodes, Tail(children), f)

\* tree.py 73-80: the first child of current_node labelled f, 0 for None
next_node(nodes, current_node, f) ==
    IF children_of(nodes, nodes[current_node].children, f) = <<>> THEN 0
    ELSE children_of(nodes, nodes[current_node].children, f)[1]

RECURSIVE remove(_, _)
\* list.remove(x): drops the first occurrence of x
remove(s, x) ==
    IF s = <<>> THEN <<>>
    ELSE IF Head(s) = x THEN Tail(s)
    ELSE <<Head(s)>> \o remove(Tail(s), x)

\* a walk that leaves the next node where it is
detach_none(T, current_node, nxt) == T

\* tree.py 82: current_node.children.remove(next_node) if next_node
detach(T, current_node, nxt) ==
    IF nxt = 0 THEN T
    ELSE [T EXCEPT !.nodes[current_node].children = remove(@, nxt)]

\* setattr(config, f, res.r) after the call that returned res
TAssign(res, config, f) ==
    [h |-> setattr(res.h, config, f, res.r), nodes |-> res.nodes]

RECURSIVE tree_to_config(_, _)
RECURSIVE configs_of_children(_, _)
RECURSIVE configs_of_chain(_, _)
RECURSIVE config_of_groups(_, _, _, _)

\* the record res.r of the next child joins child_configs
child_config_done(res, C, children) ==
    configs_of_children(TRet(res, Append(C.r, res.r)), children)

\* tree.py 66: [tree_to_config(child) for child in children]; C.r is
\* child_configs so far
configs_of_children(C, children) ==
    IF Len(C.r) >= Len(children) THEN C
    ELSE child_config_done(tree_to_config(Tof(C), children[Len(C.r) + 1]),
                           C, children)

\* tree.py 83-85: the record res.r joins chain_configs; go on with next_node
chain_config_done(res, C, nxt, f) ==
    configs_of_chain([h |-> res.h, nodes |-> res.nodes,
                      r |-> Append(C.r, res.r), cur |-> nxt], f)

\* tree.py 73-85: one iteration of the loop for the next node found
chain_step(C, nxt, f) ==
    chain_config_done(tree_to_config(detach(Tof(C), C.cur, nxt), C.cur),
                      C, nxt, f)

\* tree.py 70-85: while current_node; C = [h, nodes, r, cur]: the heaps,
\* chain_configs and current_node
configs_of_chain(C, f) ==
    IF C.cur = 0 THEN C
    ELSE chain_step(C, next_node(C.nodes, C.cur, f), f)

\* tree.py 62-90: one iteration of the loop over children_by_field
config_of_group(T, config, f, gene, children) ==
    IF gene.kind = "GeneList"
    THEN IF gene.structure = "PARALLEL"
         THEN TAssign(configs_of_children(TRet(T, <<>>), children), config, f)
         ELSE IF gene.structure = "CHAIN"
         THEN TAssign(configs_of_chain([h |-> T.h, nodes |-> T.nodes,
                                        r |-> <<>>, cur |-> children[1]], f),
                      config, f)
         ELSE T
    ELSE TAssign(tree_to_config(T, children[1]), config, f)

\* the group of key G.i is done; go on with the next key
group_done(T, G, config, names, children) ==
    config_of_groups([h |-> T.h, nodes |-> T.nodes, i |-> G.i + 1],
                     config, names, children)

\* tree.py 61-90: the loop over children_by_field; G = [h, nodes, i]: the
\* heaps and the next key
config_of_groups(G, config, names, children) ==
    IF G.i > Len(names) THEN G
    ELSE group_done(
             config_of_group(Tof(G), config, names[G.i],
                             GeneOf(G.h[config].cls, names[G.i]),
                             children_of(G.nodes, children, names[G.i])),
             G, config, names, children)

\* tree.py 52-92
tree_to_config(T, root) ==
    TRet(config_of_groups([h |-> T.h, nodes |-> T.nodes, i |-> 1],
                          T.nodes[root].data,
                          field_names(T.nodes, T.nodes[root].children, <<>>),
                          T.nodes[root].children),
         T.nodes[root].data)

\* the role tag of a record type ("None": no tag)
RoleOf(cls) ==
    CASE cls = Finger -> "finger"
      [] cls = Segment -> "segment"
      [] OTHER -> "None"
\* the role filters a caller may pass ("None": no filter)
Roles == {"None", "finger", "segment"}

RECURSIVE get_all_nodes(_, _, _)
RECURSIVE nodes_of_children(_, _, _, _)

\* tree.py 99-100: the nodes of the subtrees of children[k..], in order
nodes_of_children(T, children, role, k) ==
    IF k > Len(children) THEN <<>>
    ELSE get_all_nodes(T, children[k], role)
         \o nodes_of_children(T, children, role, k + 1)

\* tree.py 95-101
get_all_nodes(T, root, role) ==
    (IF role = "None" \/ RoleOf(T.h[T.nodes[root].data].cls) = role
     THEN <<root>> ELSE <<>>)
    \o nodes_of_children(T, T.nodes[root].children, role, 1)

(***************************************************************************)
(* Subtree crossover: crossover_tree(parentA, parentB, role).              *)
(* X = [h, nodes, n, log]: the heaps, the draws consumed, the blends made. *)
(***************************************************************************)
\* the concrete record type of the record a node holds
TypeOf(T, node) == T.h[T.nodes[node].data].cls

\* a filter that takes every candidate of parent B for compatible
compatible_any(T, candidates, chosen) == candidates

\* the candidates of parent B whose record has the type of the chosen node
compatible(T, candidates, chosen) ==
    SelectSeq(candidates, LAMBDA c : TypeOf(T, c) = TypeOf(T, chosen))

RECURSIVE copy_node(_, _)
RECURSIVE copy_children(_, _)

\* the copy res.r of the next child becomes a child of the new node
copy_child_done(res, K, children) ==
    copy_children([h |-> res.h, nodes |-> add_child(res.nodes, K.r, res.r),
                   r |-> K.r, k |-> K.k + 1], children)

\* the copies of the children of the source node become children of the
\* new node K.r; K.k is the next child
copy_children(K, children) ==
    IF K.k > Len(children) THEN K
    ELSE copy_child_done(copy_node(Tof(K), children[K.k]), K, children)

\* the copy c of the record of node n gets a node of its own
copy_alloc(c, T, n) ==
    copy_children([h |-> c.h,
                   nodes |-> Append(T.nodes,
                                    Node(c.r, T.nodes[n].field_name)),
                   r |-> Len(T.nodes) + 1, k |-> 1],
                  T.nodes[n].children)

\* a deep copy of the subtree of node n
copy_node(T, n) == copy_alloc(deepcopy(T.h, T.nodes[n].data), T, n)

\* s with its first x replaced by y
Replace(s, x, y) ==
    [k \in 1..Len(s) |->
        IF s[k] = x /\ \A j \in 1..(k - 1) : s[j] # x THEN y ELSE s[k]]

\* the copy cp.r takes the place of the chosen node under its parent; a
\* chosen root is replaced by the copy as a whole
splice_in(cp, chosen, root) ==
    IF chosen = root THEN TRet(Tof(cp), cp.r)
    ELSE TRet([h |-> cp.h,
               nodes |-> [cp.nodes EXCEPT
                            ![cp.nodes[chosen].parent].children =
                                Replace(@, chosen, cp.r),
                            ![cp.r].parent = cp.nodes[chosen].parent]],
              root)

RECURSIVE blend_fields(_, _, _, _, _, _, _)
\* arithmetic blending of the scalar genes of one position, from field i on
blend_fields(X, seed, P, child, node_a, node_b, i) ==
    IF i > Len(FieldsOf(TypeOf(X, child))) THEN X
    ELSE IF GeneOf(TypeOf(X, child),
                   FieldsOf(TypeOf(X, child))[i]).kind = "Gene"
    THEN blend_fields(
             [X EXCEPT
                !.h = setattr(X.h, X.nodes[child].data,
                              FieldsOf(TypeOf(X, child))[i],
                              blend(Draw(seed, X.n),
                                    getattr(P.h, P.nodes[node_a].data,
                                            FieldsOf(TypeOf(X, child))[i]),
                                    getattr(P.h, P.nodes[node_b].data,
                                            FieldsOf(TypeOf(X, child))[i]),
                                    IsIntField(TypeOf(X, child),
                                               FieldsOf(TypeOf(X, child))[i]))),
                !.n = X.n + 1,
                !.log = Append(X.log, [node |-> child, raw |-> Draw(seed, X.n)])],
             seed, P, child, node_a, node_b, i + 1)
    ELSE blend_fields(X, seed, P, child, node_a, node_b, i + 1)

RECURSIVE blend_pass(_, _, _, _, _, _)
RECURSIVE blend_children(_, _, _, _, _, _, _)

\* the lock-step walk over the children at index k.. of the three nodes
blend_children(X, seed, P, child, node_a, node_b, k) ==
    IF \/ k > Len(X.nodes[child].children)
       \/ k > Len(P.nodes[node_a].children)
       \/ k > Len(P.nodes[node_b].children)
    THEN X
    ELSE blend_children(blend_pass(X, seed, P, X.nodes[child].children[k],
                                   P.nodes[node_a].children[k],
                                   P.nodes[node_b].children[k]),
                        seed, P, child, node_a, node_b, k + 1)

\* the blends of one position, where the three nodes hold the same type
blend_here(X, seed, P, child, node_a, node_b) ==
    IF /\ TypeOf(X, child) = TypeOf(P, node_a)
       /\ TypeOf(X, child) = TypeOf(P, node_b)
    THEN blend_fields(X, seed, P, child, node_a, node_b, 1)
    ELSE X

\* the second pass: child tree and both parent trees in lock-step
blend_pass(X, seed, P, child, node_a, node_b) ==
    blend_children(blend_here(X, seed, P, child, node_a, node_b),
                   seed, P, child, node_a, node_b, 1)

RECURSIVE ShapeOf(_, _)
\* the record types of a subtree, position by position
ShapeOf(T, node) ==
    [cls |-> TypeOf(T, node),
     kids |-> [k \in 1..Len(T.nodes[node].children) |->
                  ShapeOf(T, T.nodes[node].children[k])]]

RECURSIVE PathOf(_, _)
\* the position of a node: the child indices that lead to it from the root
PathOf(nodes, node) ==
    IF nodes[node].parent = 0 THEN <<>>
    ELSE Append(PathOf(nodes, nodes[node].parent),
                CHOOSE k \in 1..Len(nodes[nodes[node].parent].children) :
                    nodes[nodes[node].parent].children[k] = node)

\* the child genotype res.r and what the call went through
crossover_tree_done(res, X, child_root, P, root_a, root_b, chosen, donor) ==
    [raised |-> FALSE, h |-> res.h, r |-> res.r, log |-> X.log, n |-> X.n,
     spliced |-> donor # 0,
     shapeA |-> ShapeOf(P, root_a),
     shapeB |-> ShapeOf(P, root_b),
     shapeChild |-> ShapeOf(X, child_root),
     posA |-> PathOf(P.nodes, chosen),
     posB |-> IF donor = 0 THEN <<>> ELSE PathOf(P.nodes, donor)]

\* convert the final tree back to a genotype
crossover_tree_blended(X, child_root, P, root_a, root_b, chosen, donor) ==
    crossover_tree_done(tree_to_config(Tof(X), child_root), X, child_root, P,
                        root_a, root_b, chosen, donor)

\* the second pass over the spliced tree sp
crossover_tree_spliced(sp, P, root_a, root_b, seed, chosen, donor) ==
    crossover_tree_blended(
        blend_pass([h |-> sp.h, nodes |-> sp.nodes, n |-> 2, log |-> <<>>],
                   seed, P, sp.r, root_a, root_b),
        sp.r, P, root_a, root_b, chosen, donor)

\* no compatible node: parent A's tree unchanged; else splice a deep copy
\* of a compatible node of B, picked at random
crossover_tree_compatible(P, root_a, root_b, seed, chosen, comp) ==
    IF comp = <<>>
    THEN crossover_tree_blended([h |-> P.h, nodes |-> P.nodes, n |-> 1,
                                 log |-> <<>>],
                                root_a, P, root_a, root_b, chosen, 0)
    ELSE crossover_tree_spliced(
             splice_in(copy_node(P, comp[randint(Draw(seed, 1), Len(comp)) + 1]),
                       chosen, root_a),
             P, root_a, root_b, seed, chosen,
             comp[randint(Draw(seed, 1), Len(comp)) + 1])

\* one node picked at random among parent A's candidates; the pick raises
\* when there is none
crossover_tree_candidates(P, root_a, root_b, seed, nodes_a, nodes_b) ==
    IF nodes_a = <<>> THEN [raised |-> TRUE]
    ELSE crossover_tree_compatible(
             P, root_a, root_b, seed,
             nodes_a[randint(Draw(seed, 0), Len(nodes_a)) + 1],
             compatible(P, nodes_b,
                        nodes_a[randint(Draw(seed, 0), Len(nodes_a)) + 1]))

\* both parents projected: collect the candidates of the role
crossover_tree_projected(tb, root_a, seed, role) ==
    crossover_tree_candidates(Tof(tb), root_a, tb.r, seed,
                              get_all_nodes(Tof(tb), root_a, role),
                              get_all_nodes(Tof(tb), tb.r, role))

\* parent A projected: project parent B
crossover_tree_projected_a(ta, seed, parent_b, role) ==
    crossover_tree_projected(config_to_tree(Tof(ta), parent_b, ""), ta.r,
                             seed, role)

\* crossover_tree(parentA, parentB, role)
crossover_tree(h, seed, parent_a, parent_b, role) ==
    crossover_tree_projected_a(config_to_tree([h |-> h, nodes |-> <<>>],
                                              parent_a, ""),
                               seed, parent_b, role)

(***************************************************************************)
(* Genome codec (utils.py).  A float of a vector or of a dict is [nan, v]: *)
(* the number v, or NaN.  A call that raises returns raised = TRUE.        *)
(***************************************************************************)
Num(x) == [nan |-> FALSE, v |-> x]
NaN == [nan |-> TRUE, v |-> 0]

\* utils.py 90: np.array(flat_list, dtype=np.float32)
float32_array(F) ==
    [v |-> [k \in 1..Len(F.v) |->
              IF F.v[k].nan THEN NaN ELSE Num(float32(F.v[k].v))],
     raised |-> F.raised]

\* a padding of zeros
padding_zeros(n) == [k \in 1..n |-> Num(0)]
\* utils.py 87: [np.nan] * n
padding(n) == [k \in 1..n |-> NaN]

RECURSIVE flatten_genome(_, _)
RECURSIVE flat_fields(_, _, _)
RECURSIVE flat_items(_, _, _)

\* utils.py 75-79: the block flat_item of one element joins the blocks L.v
flat_item_done(flat_item, L) ==
    [v |-> L.v \o flat_item.v,
     raised |-> flat_item.raised
                \/ (L.item_len # 0 /\ L.item_len # Len(flat_item.v)),
     item_len |-> IF L.item_len = 0 THEN Len(flat_item.v) ELSE L.item_len,
     k |-> L.k + 1]

\* utils.py 71-79: the blocks of the elements items; L = [v, raised,
\* item_len, k]: the blocks so far, the block length seen, the next element
flat_items(h, items, L) ==
    IF L.raised \/ L.k > Len(items) THEN L
    ELSE IF IsEvolvable(h[items[L.k]].cls)
    THEN flat_items(h, items,
                    flat_item_done(flatten_genome(h, items[L.k]), L))
    ELSE flat_items(h, items, [L EXCEPT !.k = L.k + 1])

\* utils.py 65-88: the count, the blocks L of the elements and, for a
\* non-empty list, the padding up to max_len elements
flat_list_done(L, F, current_value, max_len) ==
    [v |-> F.v \o <<Num(Len(current_value) * ONE)>> \o L.v
           \o (IF Len(current_value) > 0
               THEN padding((max_len - Len(current_value)) * L.item_len)
               ELSE <<>>),
     raised |-> L.raised, i |-> F.i + 1]

\* a flatten that descends into a nested record without annotation as well
flat_field_nested(h, config, f, gene_metadata, F) ==
    IF gene_metadata.kind = "Gene"
    THEN [F EXCEPT !.v = Append(F.v, Num(getattr(h, config, f))),
                   !.i = F.i + 1]
    ELSE IF gene_metadata.kind = "GeneList"
            /\ FieldType(h[config].cls, f) = "tuple"
    THEN flat_list_done(flat_items(h, getattr(h, config, f),
                                   [v |-> <<>>, raised |-> FALSE,
                                    item_len |-> 0, k |-> 1]),
                        F, getattr(h, config, f), gene_metadata.max_len)
    ELSE IF FieldType(h[config].cls, f) = "model"
    THEN [F EXCEPT !.v = F.v \o flatten_genome(h, getattr(h, config, f)).v,
                   !.i = F.i + 1]
    ELSE [F EXCEPT !.i = F.i + 1]

\* utils.py 56-88: what the field f adds to the list F.v
flat_field(h, config, f, gene_metadata, F) ==
    IF gene_metadata.kind = "Gene"
    THEN [F EXCEPT !.v = Append(F.v, Num(getattr(h, config, f))),
                   !.i = F.i + 1]
    ELSE IF gene_metadata.kind = "GeneList"
            /\ FieldType(h[config].cls, f) = "tuple"
    THEN flat_list_done(flat_items(h, getattr(h, config, f),
                                   [v |-> <<>>, raised |-> FALSE,
                                    item_len |-> 0, k |-> 1]),
                        F, getattr(h, config, f), gene_metadata.max_len)
    ELSE [F EXCEPT !.i = F.i + 1]

\* utils.py 52-88: the fields F.i.. in declaration order; F = [v, raised, i]
flat_fields(h, config, F) ==
    IF F.raised \/ F.i > Len(FieldsOf(h[config].cls)) THEN F
    ELSE flat_fields(h, config,
                     flat_field(h, config, FieldsOf(h[config].cls)[F.i],
                                GeneOf(h[config].cls,
                                       FieldsOf(h[config].cls)[F.i]),
                                F))

\* flatten_genome(config)
flatten_genome(h, config) ==
    float32_array(flat_fields(h, config,
                              [v |-> <<>>, raised |-> FALSE, i |-> 1]))

\* utils.py 114: int(round(x))
int_round(e) == RoundDiv(e.v, ONE)

RECURSIVE unflatten_recursive(_, _)
RECURSIVE unflat_fields(_, _)
RECURSIVE unflat_items(_, _, _)

\* utils.py 132-134: the dict sub.data of one element joins sub_items
unflat_item_done(sub, I) ==
    [values |-> sub.values, r |-> Append(I.r, sub.data),
     raised |-> sub.raised,
     item_flat_size |-> IF I.item_flat_size = 0
                        THEN I.prev - Len(sub.values)
                        ELSE I.item_flat_size,
     prev |-> I.prev]

\* utils.py 129-134: num_items dicts; I = [values, r, raised,
\* item_flat_size, prev]: the values left, sub_items, prev_values_size
unflat_items(item_type, num_items, I) ==
    IF I.raised \/ Len(I.r) >= num_items THEN I
    ELSE unflat_items(item_type, num_items,
                      unflat_item_done(unflatten_recursive(item_type,
                                                           I.values), I))

\* a decoder that leaves the padding where it is
num_discarded_none(I, num_items, max_len) == 0
\* utils.py 139-142: the number of padding values popped
num_discarded(I, num_items, max_len) ==
    IF num_items > 0 THEN Max((max_len - num_items) * I.item_flat_size, 0)
    ELSE 0

\* utils.py 136-143: the list is stored, the padding is popped; popping
\* from an empty list raises
unflat_list_done(I, U, f, num_items, max_len) ==
    [values |-> SubSeq(I.values, num_discarded(I, num_items, max_len) + 1,
                       Len(I.values)),
     data |-> U.data @@ (f :> I.r),
     raised |-> I.raised
                \/ num_discarded(I, num_items, max_len) > Len(I.values),
     i |-> U.i + 1]

\* utils.py 110-143: what the field f pops from U.values and stores in U.data
unflat_field(cls, f, gene_metadata, U) ==
    IF gene_metadata.kind = "None" THEN [U EXCEPT !.i = U.i + 1]
    ELSE IF Len(U.values) = 0 THEN [U EXCEPT !.raised = TRUE]
    ELSE IF gene_metadata.kind = "Gene"
    THEN [values |-> Tail(U.values),
          data |-> U.data @@ (f :> Head(U.values)),
          raised |-> FALSE, i |-> U.i + 1]
    ELSE IF Head(U.values).nan THEN [U EXCEPT !.raised = TRUE]
    ELSE unflat_list_done(
             unflat_items(ItemType(cls, f), int_round(Head(U.values)),
                          [values |-> Tail(U.values), r |-> <<>>,
                           raised |-> FALSE, item_flat_size |-> 0,
                           prev |-> Len(U.values) - 1]),
             U, f, int_round(Head(U.values)), gene_metadata.max_len)

\* utils.py 102-143: the fields U.i.. in declaration order; U = [values,
\* data, raised, i]
unflat_fields(cls, U) ==
    IF U.raised \/ U.i > Len(FieldsOf(cls)) THEN U
    ELSE unflat_fields(cls, unflat_field(cls, FieldsOf(cls)[U.i],
                                         GeneOf(cls, FieldsOf(cls)[U.i]), U))

\* _unflatten_recursive(cls) on the values left
unflatten_recursive(cls, values) ==
    unflat_fields(cls, [values |-> values, data |-> [f \in {} |-> 0],
                        raised |-> FALSE, i |-> 1])

RECURSIVE model_dump(_, _)
\* template.model_dump(): nested dicts and tuples of dicts
model_dump(h, r) ==
    [f \in DOMAIN h[r].val |->
        IF FieldType(h[r].cls, f) = "model" THEN model_dump(h, h[r].val[f])
        ELSE IF FieldType(h[r].cls, f) = "tuple"
        THEN [k \in 1..Len(h[r].val[f]) |-> model_dump(h, h[r].val[f][k])]
        ELSE IF FieldType(h[r].cls, f) = "num" THEN Num(h[r].val[f])
        ELSE h[r].val[f]]

RECURSIVE partial_update_raises(_, _, _)
RECURSIVE partial_update(_, _, _)
RECURSIVE item_template(_, _, _, _)

\* utils.py 25-28: template[0] when the elements beyond the template list
\* are built; the loop of line 24 has updated it in place by then
item_template(cls, f, template, updates) ==
    partial_update(ItemType(cls, f), template[f][1], updates[f][1])

\* utils.py 28-29: template[0] of an empty template list raises
partial_update_raises(cls, template, updates) ==
    \E f \in DOMAIN updates :
        /\ GeneOf(cls, f).kind = "GeneList"
        /\ \/ Len(updates[f]) > 0 /\ Len(template[f]) = 0
           \/ \E k \in 1..Min(Len(updates[f]), Len(template[f])) :
                 partial_update_raises(ItemType(cls, f), template[f][k],
                                       updates[f][k])
           \/ /\ Len(template[f]) > 0
              /\ Len(updates[f]) > Len(template[f])
              /\ ~partial_update_raises(ItemType(cls, f), template[f][1],
                                        updates[f][1])
              /\ \E k \in (Len(template[f]) + 1)..Len(updates[f]) :
                    partial_update_raises(
                        ItemType(cls, f),
                        item_template(cls, f, template, updates),
                        updates[f][k])

\* a merge that builds every element of a list on the template's first
partial_update_on_first(cls, template, updates) ==
    [f \in DOMAIN template |->
        IF f \notin DOMAIN updates THEN template[f]
        ELSE IF GeneOf(cls, f).kind = "GeneList"
        THEN [k \in 1..Len(updates[f]) |->
                partial_update(ItemType(cls, f), template[f][1],
                               updates[f][k])]
        ELSE updates[f]]
\* partial_update(template, updates) on the dump of a record of class cls
\* and the dict read from a vector: dicts merge per key, lists per index
\* (an index beyond the template list builds on its first element), an
\* updating float replaces the template's
partial_update(cls, template, updates) ==
    [f \in DOMAIN template |->
        IF f \notin DOMAIN updates THEN template[f]
        ELSE IF GeneOf(cls, f).kind = "GeneList"
        THEN [k \in 1..Len(updates[f]) |->
                partial_update(
                    ItemType(cls, f),
                    IF k <= Len(template[f]) THEN template[f][k]
                    ELSE item_template(cls, f, template, updates),
                    updates[f][k])]
        ELSE updates[f]]

\* config.py: Field(..., ge=0.0) of every float field, gt=0.0 of the base
\* mass; a NaN satisfies no comparison
field_valid(cls, f, e) ==
    /\ ~e.nan
    /\ IF cls = Base /\ f = "mass" THEN e.v > 0 ELSE e.v >= 0

RECURSIVE construct(_, _, _)
RECURSIVE construct_fields(_, _)
RECURSIVE construct_items(_, _, _)

construct_item_done(c, D, cls, ds) ==
    construct_items([h |-> c.h, r |-> Append(D.r, c.r), raised |-> c.raised],
                    cls, ds)

\* the records of class cls built from the dicts ds; D = [h, r, raised]
construct_items(D, cls, ds) ==
    IF D.raised \/ Len(D.r) >= Len(ds) THEN D
    ELSE construct_item_done(construct(D.h, cls, ds[Len(D.r) + 1]),
                             D, cls, ds)

construct_field_done(c, D, cls, f) ==
    [h |-> c.h, r |-> [D.r EXCEPT ![f] = c.r], raised |-> c.raised,
     i |-> D.i + 1]

\* validation of the field f of the dict D.r
construct_field(D, cls, f) ==
    IF FieldType(cls, f) = "model"
    THEN construct_field_done(construct(D.h, ItemType(cls, f), D.r[f]),
                              D, cls, f)
    ELSE IF FieldType(cls, f) = "tuple"
    THEN construct_field_done(
             construct_items([h |-> D.h, r |-> <<>>, raised |-> FALSE],
                             ItemType(cls, f), D.r[f]),
             D, cls, f)
    ELSE IF FieldType(cls, f) = "num"
    THEN [h |-> D.h, r |-> [D.r EXCEPT ![f] = D.r[f].v],
          raised |-> ~field_valid(cls, f, D.r[f]), i |-> D.i + 1]
    ELSE [D EXCEPT !.i = D.i + 1]

\* the fields D.i.. validated; D = [h, r, raised, i]
construct_fields(D, cls) ==
    IF D.raised \/ D.i > Len(FieldsOf(cls)) THEN D
    ELSE construct_fields(construct_field(D, cls, FieldsOf(cls)[D.i]), cls)

\* config.py 51-55: a finger without segments is rejected
construct_alloc(c, cls) ==
    IF c.raised THEN [h |-> c.h, r |-> 0, raised |-> TRUE]
    ELSE IF cls = Finger /\ Len(c.r["segments"]) = 0
    THEN [h |-> c.h, r |-> 0, raised |-> TRUE]
    ELSE [h |-> Append(c.h, [cls |-> cls, val |-> c.r]), r |-> Len(c.h) + 1,
          raised |-> FALSE]

\* cls(**d): the validated record built from the dict d
construct(h, cls, d) ==
    construct_alloc(construct_fields([h |-> h, r |-> d, raised |-> FALSE,
                                      i |-> 1], cls),
                    cls)

\* utils.py 150-153 on the dict U read from the vector
unflatten_built(U, h, template) ==
    IF U.raised THEN [h |-> h, r |-> 0, raised |-> TRUE]
    ELSE IF partial_update_raises(h[template].cls, model_dump(h, template),
                                  U.data)
    THEN [h |-> h, r |-> 0, raised |-> TRUE]
    ELSE construct(h, h[template].cls,
                   partial_update(h[template].cls, model_dump(h, template),
                                  U.data))

\* unflatten_genome(flat_array, template)
unflatten_genome(h, flat_array, template) ==
    unflatten_built(unflatten_recursive(h[template].cls, flat_array),
                    h, template)

(***************************************************************************)
(* Scenario registry (simulation/scenario/core.py).  R = [_scenarios,      *)
(* _configs, registered]: the two class dictionaries and the classes       *)
(* registered so far, in order.  A class is named by a string; None is the *)
(* absent value.                                                           *)
(***************************************************************************)
None == "None"
\* the scenario classes that are handed to register
ScenarioClasses ==
    {"MoveCubeToTargetScenario", "MoveToTargetScenario", "DummyScenario",
     "DummyScenarioDouble", "scenario_move_cube.MoveCubeToTargetScenario"}

\* the annotation of the config parameter of scenario_class.__init__; the
\* double inherits DummyScenario.__init__, the parameter **config of
\* scenario_move_cube.py has no annotation
config_annotation(scenario_class) ==
    CASE scenario_class = "MoveCubeToTargetScenario" ->
            "MoveCubeToTargetScenarioConfig"
      [] scenario_class = "MoveToTargetScenario" -> "MoveToTarget"
      [] scenario_class \in {"DummyScenario", "DummyScenarioDouble"} ->
            "DummyConfig"
      [] OTHER -> "inspect._empty"

\* config_class.model_fields["name"].default
name_default(config_class) ==
    CASE config_class = "MoveCubeToTargetScenarioConfig" ->
            "move_cube_to_target"
      [] config_class = "MoveToTarget" -> "move_to_target"
      [] config_class = "DummyConfig" -> "dummy_scenario"

\* scenario/core.py 102: issubclass(config.annotation, ScenarioConfig)
is_scenario_config(annotation) ==
    annotation \in {"MoveCubeToTargetScenarioConfig", "MoveToTarget",
                    "DummyConfig"}

\* a dictionary that keeps the value a key had
setitem_keep(d, key, value) == d @@ (key :> value)
\* d[key] = value
setitem(d, key, value) == (key :> value) @@ d
\* d.get(key)
get(d, key) == IF key \in DOMAIN d THEN d[key] ELSE None

\* scenario/core.py 97-117: ScenarioRegistry.register(scenario_class)
register(R, scenario_class) ==
    IF ~is_scenario_config(config_annotation(scenario_class))
    THEN [R |-> R, raised |-> "ValueError"]
    ELSE IF name_default(config_annotation(scenario_class)) = ""
    THEN [R |-> R, raised |-> "ValueError"]
    ELSE [R |-> [_scenarios |->
                    setitem(R._scenarios,
                            name_default(config_annotation(scenario_class)),
                            scenario_class),
                 _configs |->
                    setitem(R._configs,
                            name_default(config_annotation(scenario_class)),
                            config_annotation(scenario_class)),
                 registered |-> Append(R.registered, scenario_class)],
          raised |-> None, out |-> scenario_class]

\* ConfigClass(**config): a config that does not validate raises
new_config(ConfigClass, config) ==
    IF config.valid
    THEN [raised |-> None, out |-> [cls |-> ConfigClass, data |-> config]]
    ELSE [raised |-> "ValidationError"]

\* scenario/core.py 156-157: ScenarioClass(config=scenario_config)
new_scenario(ScenarioClass, scenario_config) ==
    IF scenario_config.raised # None THEN scenario_config
    ELSE [raised |-> None,
          out |-> [cls |-> ScenarioClass, config |-> scenario_config.out]]

\* scenario/core.py 142-157: ScenarioRegistry.load(config)
load(R, config) ==
    IF config.name = None THEN [raised |-> "ValueError"]
    ELSE IF get(R._configs, config.name) = None
    THEN [raised |-> "ValueError"]
    ELSE IF get(R._scenarios, config.name) = None
    THEN [raised |-> "ValueError"]
    ELSE new_scenario(get(R._scenarios, config.name),
                      new_config(get(R._configs, config.name), config))

(***************************************************************************)
(* Genotypes the loader hands to the engine.                               *)
(***************************************************************************)
SegmentConfig(length, width, mass) ==
    [cls |-> Segment,
     val |-> [length |-> length, width |-> width, mass |-> mass,
              motor_stiffness |-> 3 * ONE, motor_damping |-> ONE,
              joint_angle_limit |-> <<-ONE, ONE>>]]
FingerConfig(segments) ==
    [cls |-> Finger, val |-> [segments |-> segments, defaults |-> "None"]]
BaseConfig(width, height, mass) ==
    [cls |-> Base, val |-> [width |-> width, height |-> height, mass |-> mass]]
\* config.py 109-115: the default action limits
ActionLimitsConfig ==
    [cls |-> Limits,
     val |-> [velocity |-> <<-100 * ONE, 100 * ONE>>,
              omega |-> <<-ONE, ONE>>, motor_rate |-> <<-ONE, ONE>>]]
RobotConfig(base, fingers) ==
    [cls |-> Robot,
     val |-> [base |-> base, fingers |-> fingers, limits |-> ActionLimitsConfig]]

\* finger counts and per-finger segment counts within the declared lengths
Shapes == UNION {[1..nf -> 1..MaxSegments] : nf \in 1..MaxFingers}

\* a tenth, as the binary fraction a Python float holds
Tenth == RoundDiv(ONE, 10)

\* scalar genes alternate between the two ends of their declared range, d
\* inside it
Low(gene, sel, d) ==
    IF sel % 2 = 0 THEN gene.min_val + d ELSE gene.max_val - d

\* segment j of finger i; its mass tells its place
SegmentAt(i, j, v, d) ==
    SegmentConfig(Low(GeneOf(Segment, "length"), i + j + v, d),
                  Low(GeneOf(Segment, "width"), j + v, d),
                  (MaxSegments + 1) * i * ONE + j * ONE)
RobotOf(shape, v, d) ==
    RobotConfig(BaseConfig(Low(GeneOf(Base, "width"), v, d),
                           Low(GeneOf(Base, "height"), v + 1, d),
                           (5 + v) * ONE),
                [i \in 1..Len(shape) |->
                    FingerConfig([j \in 1..shape[i] |->
                                    SegmentAt(i, j, v, d)])])

(***************************************************************************)
(* State: two genotypes of the population, the record of the last call and *)
(* the number of variation calls made.                                     *)
(***************************************************************************)
VARIABLES a, b, last, ops, tree, vec, registry
vars == <<a, b, last, ops, tree, vec, registry>>

NoCall == [op |-> "none"]
\* no tree has been projected yet
NoTree == [root |-> 0, calls |-> 0]
\* no vector has been flattened yet
NoVec == [src |-> "none"]
\* scenario/core.py 94-95: the registry before any registration
NoRegistry == [_scenarios |-> <<>>, _configs |-> <<>>, registered |-> <<>>]
S0(h) == [h |-> h, n |-> 0, log |-> <<>>, ev |-> <<>>]

Init ==
    /\ a \in {RobotOf(shape, 0, 0) : shape \in Shapes}
    /\ b \in {RobotOf(shape, 1, 0) : shape \in Shapes}
    /\ last = NoCall
    /\ ops = 0
    /\ tree = NoTree
    /\ vec = NoVec
    /\ registry = NoRegistry

\* what a mutate call that returned res leaves behind
MutateDone(res, g, arg, seed) ==
    [op |-> "mutate", args |-> <<g>>, seed |-> seed,
     after |-> <<Read(res.h, arg)>>, out |-> Read(res.h, res.r),
     log |-> res.log, ev |-> res.ev]

\* mutate on the loaded object graph arg of g
MutateLoaded(arg, g, seed) ==
    MutateDone(apply_mutations(S0(arg.h), seed, arg.r, <<>>), g, arg.r, seed)

\* np.random.seed(seed); one call of mutate on the object graph of g
MutateCall(g, seed) == MutateLoaded(Load(<<>>, g), g, seed)

\* what a crossover call that returned res leaves behind
CrossoverDone(res, ga, gb, arg_a, arg_b, seed) ==
    [op |-> "crossover", args |-> <<ga, gb>>, seed |-> seed,
     after |-> <<Read(res.h, arg_a), Read(res.h, arg_b)>>,
     out |-> Read(res.h, res.r), log |-> res.log, ev |-> res.ev]

\* crossover on the loaded object graphs arg_a of ga and arg_b of gb
CrossoverLoaded(arg_b, arg_a, ga, gb, seed) ==
    CrossoverDone(apply_crossover(S0(arg_b.h), seed, arg_a, arg_b.r, <<>>),
                  ga, gb, arg_a, arg_b.r, seed)

\* the second parent is loaded next to the first
CrossoverLoadB(arg_a, ga, gb, seed) ==
    CrossoverLoaded(Load(arg_a.h, gb), arg_a.r, ga, gb, seed)

\* np.random.seed(seed); one call of crossover on the graphs of ga and gb
CrossoverCall(ga, gb, seed) == CrossoverLoadB(Load(<<>>, ga), ga, gb, seed)

\* a := mutate(a)
Mutate ==
    /\ ops < MaxOps
    /\ \E seed \in Seeds :
         /\ last' = MutateCall(a, seed)
         /\ a' = last'.out
    /\ ops' = ops + 1
    /\ UNCHANGED <<b, tree, vec, registry>>

\* a := crossover(a, b)
Crossover ==
    /\ ops < MaxOps
    /\ \E seed \in Seeds :
         /\ last' = CrossoverCall(a, b, seed)
         /\ a' = last'.out
    /\ ops' = ops + 1
    /\ UNCHANGED <<b, tree, vec, registry>>

Next == Mutate \/ Crossover
Spec == Init /\ [][Next]_vars

(***************************************************************************)
(* A second run of the last call: np.random.seed with the same seed, equal *)
(* arguments, in a process whose objects were built in another order.      *)
(***************************************************************************)
\* mutate on g after the objects of other were built
MutateRerun(g, other, seed) ==
    MutateLoaded(Load(Load(<<>>, other).h, g), g, seed)

\* crossover on the object graphs arg_a of ga and arg_b of gb
CrossoverRerunLoaded(arg_a, arg_b, ga, gb, seed) ==
    CrossoverDone(apply_crossover(S0(arg_a.h), seed, arg_a.r, arg_b, <<>>),
                  ga, gb, arg_a.r, arg_b, seed)

\* the first parent is loaded after the second
CrossoverRerunLoadA(arg_b, ga, gb, seed) ==
    CrossoverRerunLoaded(Load(arg_b.h, ga), arg_b.r, ga, gb, seed)

\* crossover on ga and gb, the objects of gb built first
CrossoverRerun(ga, gb, seed) == CrossoverRerunLoadA(Load(<<>>, gb), ga, gb, seed)

\* the last mutate or crossover call is run again from the same seed
Rerun ==
    /\ last.op \in {"mutate", "crossover"}
    /\ last' = [op |-> "rerun", first |-> last,
                out |-> IF last.op = "mutate"
                        THEN MutateRerun(last.args[1], b, last.seed).out
                        ELSE CrossoverRerun(last.args[1], last.args[2],
                                            last.seed).out]
    /\ UNCHANGED <<a, b, ops, tree, vec, registry>>

\* the populations whose calls are run twice: the second genotype may have
\* no finger
InitRuns ==
    /\ a \in {RobotOf(shape, 0, 0) : shape \in Shapes}
    /\ b \in {RobotOf(shape, 1, 0) : shape \in {<<>>, <<1>>, <<2, 1>>}}
    /\ last = NoCall
    /\ ops = 0
    /\ tree = NoTree
    /\ vec = NoVec
    /\ registry = NoRegistry

NextRuns == Mutate \/ Crossover \/ Rerun
SpecRuns == InitRuns /\ [][NextRuns]_vars

(***************************************************************************)
(* Schema handling: crossover of parents of different record types, and    *)
(* the construction of gene annotations.                                   *)
(***************************************************************************)
\* the plain record type an Evolvable* type derives from (robot.py 15-43)
PlainOf(cls) ==
    CASE cls = Robot -> PlainRobot
      [] cls = Base -> PlainBase
      [] cls = Finger -> PlainFinger
      [] cls = Segment -> PlainSegment
      [] OTHER -> cls

RECURSIVE AsPlain(_)
\* RobotConfig(**g.model_dump()): the values of g in the plain record types
AsPlain(g) ==
    [cls |-> PlainOf(g.cls),
     val |-> [f \in DOMAIN g.val |->
                IF FieldType(g.cls, f) = "model" THEN AsPlain(g.val[f])
                ELSE IF FieldType(g.cls, f) = "tuple"
                THEN [k \in 1..Len(g.val[f]) |-> AsPlain(g.val[f][k])]
                ELSE g.val[f]]]

\* a := crossover(a, the plain RobotConfig holding the values of b)
CrossoverPlain ==
    /\ ops < MaxOps
    /\ \E seed \in Seeds :
         /\ last' = CrossoverCall(a, AsPlain(b), seed)
         /\ a' = last'.out
    /\ ops' = ops + 1
    /\ UNCHANGED <<b, tree, vec, registry>>

\* types.py 6-10: Allele(mutation_std=..., min_val=..., max_val=...); the
\* model validates each field as a float and nothing else
Allele(mutation_std, min_val, max_val) ==
    [raised |-> FALSE,
     out |-> [mutation_std |-> mutation_std, min_val |-> min_val,
              max_val |-> max_val]]

\* types.py 12-17: Chromosome(min_len=..., max_len=..., ...); the model
\* validates each field as an int or a float and nothing else
Chromosome(min_len, max_len, add_prob, remove_prob) ==
    [raised |-> FALSE,
     out |-> [min_len |-> min_len, max_len |-> max_len,
              add_prob |-> add_prob, remove_prob |-> remove_prob]]

\* what the construction res of an annotation leaves behind
AnnotationDone(res, kind) ==
    IF res.raised THEN [op |-> "raised"] ELSE [op |-> kind, out |-> res.out]

\* a scalar-gene annotation is constructed
NewAllele ==
    /\ \E min_val \in {0, ONE, 2 * ONE}, max_val \in {0, ONE, 2 * ONE} :
         last' = AnnotationDone(Allele(ONE, min_val, max_val), "Allele")
    /\ UNCHANGED <<a, b, ops, tree, vec, registry>>

\* a list-gene annotation is constructed
NewChromosome ==
    /\ \E min_len \in 0..MaxFingers, max_len \in 0..MaxFingers :
         last' = AnnotationDone(Chromosome(min_len, max_len, 100, 50),
                                "Chromosome")
    /\ UNCHANGED <<a, b, ops, tree, vec, registry>>

NextSchema == CrossoverPlain \/ NewAllele \/ NewChromosome
SpecSchema == Init /\ [][NextSchema]_vars

(***************************************************************************)
(* The tree projector at work: a tree projected from a genotype is kept,   *)
(* tree_to_config is called on it.  tree = [h, nodes, root, of, calls]: of *)
(* the genotype it was projected from, calls the tree_to_config calls it   *)
(* has seen.                                                               *)
(***************************************************************************)
T0(h) == [h |-> h, nodes |-> <<>>]

\* what a config_to_tree call that returned the node res.r leaves behind
ProjectDone(res, g, arg) ==
    [h |-> res.h, nodes |-> res.nodes, root |-> res.r, of |-> g,
     after |-> Read(res.h, arg), calls |-> 0]

\* config_to_tree on the loaded object graph arg of g
ProjectLoaded(arg, g) ==
    ProjectDone(config_to_tree(T0(arg.h), arg.r, ""), g, arg.r)

\* one call of config_to_tree on the object graph of g
ProjectCall(g) == ProjectLoaded(Load(<<>>, g), g)

\* what a tree_to_config call that returned the record res.r leaves behind
UnprojectDone(res, t) ==
    [t EXCEPT !.h = res.h, !.nodes = res.nodes, !.calls = t.calls + 1]

\* one call of tree_to_config on the root of the tree t
UnprojectCall(t) ==
    UnprojectDone(tree_to_config([h |-> t.h, nodes |-> t.nodes], t.root), t)

\* tree := config_to_tree(a)
ConfigToTree ==
    /\ tree.root = 0
    /\ tree' = ProjectCall(a)
    /\ last' = [op |-> "config_to_tree", args |-> <<a>>,
                after |-> <<tree'.after>>]
    /\ UNCHANGED <<a, b, ops, vec, registry>>

\* tree_to_config(tree); the tree is kept as the call leaves it
TreeToConfig ==
    /\ tree.root # 0
    /\ tree.calls < MaxOps
    /\ tree' = UnprojectCall(tree)
    /\ last' = [op |-> "tree_to_config",
                out |-> Read(tree'.h, tree'.nodes[tree'.root].data)]
    /\ UNCHANGED <<a, b, ops, vec, registry>>

\* what a crossover_tree call that returned res leaves behind
CrossoverTreeDone(res, ga, gb, arg_a, arg_b, role) ==
    IF res.raised THEN [op |-> "raised"]
    ELSE [op |-> "crossover_tree", args |-> <<ga, gb>>, role |-> role,
          after |-> <<Read(res.h, arg_a), Read(res.h, arg_b)>>,
          out |-> Read(res.h, res.r), log |-> res.log,
          spliced |-> res.spliced, shapeA |-> res.shapeA,
          shapeB |-> res.shapeB, shapeChild |-> res.shapeChild,
          posA |-> res.posA, posB |-> res.posB]

\* crossover_tree on the loaded object graphs arg_a of ga and arg_b of gb
CrossoverTreeLoaded(arg_b, arg_a, ga, gb, role, seed) ==
    CrossoverTreeDone(crossover_tree(arg_b.h, seed, arg_a, arg_b.r, role),
                      ga, gb, arg_a, arg_b.r, role)

\* the second parent is loaded next to the first
CrossoverTreeLoadB(arg_a, ga, gb, role, seed) ==
    CrossoverTreeLoaded(Load(arg_a.h, gb), arg_a.r, ga, gb, role, seed)

\* np.random.seed(seed); one call of crossover_tree on the graphs of ga, gb
CrossoverTreeCall(ga, gb, role, seed) ==
    CrossoverTreeLoadB(Load(<<>>, ga), ga, gb, role, seed)

\* a := crossover_tree(a, b, role), before any tree is kept
CrossoverTree ==
    /\ ops < MaxOps
    /\ tree.root = 0
    /\ \E seed \in Seeds, role \in Roles :
         /\ last' = CrossoverTreeCall(a, b, role, seed)
         /\ last'.op = "crossover_tree"
         /\ a' = last'.out
    /\ ops' = ops + 1
    /\ UNCHANGED <<b, tree, vec, registry>>

\* the parents of the subtree crossover: the second may have no finger
InitTree ==
    /\ a \in {RobotOf(shape, 0, 0) : shape \in Shapes}
    /\ b \in {RobotOf(shape, 1, 0) : shape \in {<<>>, <<1>>, <<2, 1>>}}
    /\ last = NoCall
    /\ ops = 0
    /\ tree = NoTree
    /\ vec = NoVec
    /\ registry = NoRegistry

NextTree == ConfigToTree \/ TreeToConfig \/ CrossoverTree
SpecTree == InitTree /\ [][NextTree]_vars

(***************************************************************************)
(* The codec at work: a vector optimizer keeps the vector of a genotype    *)
(* and has it decoded against the template a.  vec = [src, v, of]: the     *)
(* vector and the genotype it was flattened from.                          *)
(***************************************************************************)
\* what a flatten_genome call that returned res, or raised, leaves behind
FlattenDone(res, g, arg) ==
    IF res.raised
    THEN [op |-> "raised", call |-> "flatten_genome", args |-> <<g>>]
    ELSE [op |-> "flatten_genome", args |-> <<g>>,
          after |-> <<Read(arg.h, arg.r)>>, out |-> res.v, raised |-> FALSE]

\* flatten_genome on the loaded object graph arg of g
FlattenLoaded(arg, g) == FlattenDone(flatten_genome(arg.h, arg.r), g, arg)

\* one call of flatten_genome on the object graph of g
FlattenCall(g) == FlattenLoaded(Load(<<>>, g), g)

\* what an unflatten_genome call that returned res leaves behind
UnflattenDone(res, v, g, arg) ==
    IF res.raised THEN [op |-> "raised"]
    ELSE [op |-> "unflatten_genome", flat_array |-> v, args |-> <<g>>,
          after |-> <<Read(res.h, arg)>>, out |-> Read(res.h, res.r)]

\* unflatten_genome on the loaded object graph arg of the template g
UnflattenLoaded(arg, v, g) ==
    UnflattenDone(unflatten_genome(arg.h, v, arg.r), v, g, arg.r)

\* one call of unflatten_genome on the vector v and the template g
UnflattenCall(v, g) == UnflattenLoaded(Load(<<>>, g), v, g)

\* vec := flatten_genome(g) for a genotype g of the population; a call that
\* raises leaves vec as it is
Flatten ==
    /\ \E g \in {a, b} :
         /\ last' = FlattenCall(g)
         /\ vec' = IF last'.op = "raised" THEN vec
                   ELSE [src |-> "flatten_genome", v |-> last'.out, of |-> g]
    /\ UNCHANGED <<a, b, ops, tree, registry>>

\* a := unflatten_genome(vec, a)
Unflatten ==
    /\ ops < MaxOps
    /\ vec.src = "flatten_genome"
    /\ last' = UnflattenCall(vec.v, a)
    /\ last'.op = "unflatten_genome"
    /\ a' = last'.out
    /\ ops' = ops + 1
    /\ UNCHANGED <<b, tree, vec, registry>>

\* the genotypes of the codec: a robot may have no finger, a gene may hold
\* a value off the float32 grid
InitCodec ==
    /\ a \in {RobotOf(shape, 0, d) : shape \in Shapes \cup {<<>>},
                                     d \in {0, Tenth}}
    /\ b \in {RobotOf(shape, 1, d) : shape \in {<<>>, <<2, 1>>},
                                     d \in {0, Tenth}}
    /\ last = NoCall
    /\ ops = 0
    /\ tree = NoTree
    /\ vec = NoVec
    /\ registry = NoRegistry

NextCodec == Flatten \/ Unflatten
SpecCodec == InitCodec /\ [][NextCodec]_vars

(***************************************************************************)
(* Lists of other forms: the records of the 3D robot, a finger longer than *)
(* max_len, and a list whose elements are not of one type.                 *)
(***************************************************************************)
IsaacSphereConfig(radius) ==
    [cls |-> IsaacSphere, val |-> [type |-> "sphere", radius |-> radius]]
IsaacLinkConfig(cls, name, mass, geometry) ==
    [cls |-> cls,
     val |-> [name |-> name, mass |-> mass, geometry |-> geometry]]
IsaacFingerAttachmentConfig(angle, radius) ==
    [cls |-> IsaacAttachment,
     val |-> [angle |-> angle, radius |-> radius, z_offset |-> 0,
              yaw_offset |-> 0]]
IsaacFingerConfig(attachment, segments) ==
    [cls |-> IsaacFinger,
     val |-> [defaults |-> <<-ONE, ONE, Tenth>>, attachment |-> attachment,
              segments |-> segments, fingertip |-> "None"]]
IsaacRobotConfig(base, fingers) ==
    [cls |-> IsaacRobot, val |-> [base |-> base, fingers |-> fingers]]

IsaacLinkAt(i, j) ==
    IsaacLinkConfig(IsaacLink, "segment", Tenth,
                    IsaacSphereConfig(Low(GeneOf(IsaacSphere, "radius"),
                                          i + j, 0)))
IsaacFingerAt(i, n) ==
    IsaacFingerConfig(
        IsaacFingerAttachmentConfig(
            (i - 1) * ONE, Low(GeneOf(IsaacAttachment, "radius"), i, 0)),
        [j \in 1..n |-> IsaacLinkAt(i, j)])
IsaacBaseOf ==
    IsaacLinkConfig(IsaacBase, "base", ONE,
                    IsaacSphereConfig(GeneOf(IsaacSphere, "radius").max_val))
\* the 3D robot with shape[i] segments on finger i
IsaacRobotOf(shape) ==
    IsaacRobotConfig(IsaacBaseOf,
                     [i \in 1..Len(shape) |-> IsaacFingerAt(i, shape[i])])

\* a 3D robot whose fingers tuple was assigned a link next to a finger
MixedRobots ==
    {IsaacRobotConfig(IsaacBaseOf, fingers) :
        fingers \in {<<IsaacLinkAt(1, 1), IsaacFingerAt(2, 1)>>,
                     <<IsaacFingerAt(1, 1), IsaacLinkAt(2, 1)>>}}

\* 2D robots with one finger of more than max_len segments
LongShapes == {<<MaxSegments + 1, 1>>, <<1, MaxSegments + 1>>}

InitLists ==
    /\ a \in {RobotOf(shape, 0, 0) : shape \in Shapes \cup LongShapes}
            \cup {IsaacRobotOf(shape) : shape \in Shapes}
            \cup MixedRobots
    /\ b \in {RobotOf(<<1, 2>>, 1, 0), IsaacRobotOf(<<2, 1>>)}
    /\ last = NoCall
    /\ ops = 0
    /\ tree = NoTree
    /\ vec = NoVec
    /\ registry = NoRegistry

NextLists == Flatten \/ ConfigToTree \/ TreeToConfig
SpecLists == InitLists /\ [][NextLists]_vars

(***************************************************************************)
(* The registry at work: classes are registered, configuration dicts are   *)
(* loaded.  last keeps the call, its argument, what it returned or raised  *)
(* and the registry before it.                                             *)
(***************************************************************************)
MaxRegistered == 3
\* the configuration dicts: a name or none, and whether the rest validates
ScenarioDicts ==
    [name : {None, "move_cube_to_target", "move_to_target", "dummy_scenario",
             "unregistered_scenario"},
     valid : BOOLEAN]

RegistryCall(call, arg, res) ==
    [op |-> IF res.raised # None THEN "raised" ELSE call, call |-> call,
     arg |-> arg, res |-> res, before |-> registry]

\* ScenarioRegistry.register(scenario_class)
Register ==
    /\ Len(registry.registered) < MaxRegistered
    /\ \E scenario_class \in ScenarioClasses :
         /\ last' = RegistryCall("register", scenario_class,
                                 register(registry, scenario_class))
         /\ registry' = register(registry, scenario_class).R
    /\ UNCHANGED <<a, b, ops, tree, vec>>

\* ScenarioRegistry.load(config)
LoadScenario ==
    /\ \E config \in ScenarioDicts :
         last' = RegistryCall("load", config, load(registry, config))
    /\ UNCHANGED <<a, b, ops, tree, vec, registry>>

InitRegistry ==
    /\ a = RobotOf(<<1>>, 0, 0)
    /\ b = RobotOf(<<1>>, 1, 0)
    /\ last = NoCall
    /\ ops = 0
    /\ tree = NoTree
    /\ vec = NoVec
    /\ registry = NoRegistry

NextRegistry == Register \/ LoadScenario
SpecRegistry == InitRegistry /\ [][NextRegistry]_vars

(***************************************************************************)
(* Variation of a record with an int gene.                                 *)
(***************************************************************************)
CountedConfig(count, scale) ==
    [cls |-> Counted, val |-> [count |-> count, scale |-> scale]]

\* the int field holds an integer, the float field a multiple of a half
InitInt ==
    /\ a \in {CountedConfig(c * ONE, s * (ONE \div 2)) :
                 c \in 0..3, s \in {1, 4}}
    /\ b \in {CountedConfig(c * ONE, 3 * (ONE \div 2)) : c \in {0, 1, 3}}
    /\ last = NoCall
    /\ ops = 0
    /\ tree = NoTree
    /\ vec = NoVec
    /\ registry = NoRegistry

\* b := mutate(b), before a is varied
MutateOther ==
    /\ ops = 0
    /\ \E seed \in Seeds :
         /\ last' = MutateCall(b, seed)
         /\ b' = last'.out
    /\ UNCHANGED <<a, ops, tree, vec, registry>>

NextInt == Mutate \/ MutateOther \/ Crossover
SpecInt == InitInt /\ [][NextInt]_vars

(***************************************************************************)
(* Every operation that takes a genotype, in one population.               *)
(***************************************************************************)
InitCalls ==
    /\ a \in {RobotOf(<<2, 1>>, 0, d) : d \in {0, Tenth}}
    /\ b \in {RobotOf(<<1, 2>>, 1, 0)}
    /\ last = NoCall
    /\ ops = 0
    /\ tree = NoTree
    /\ vec = NoVec
    /\ registry = NoRegistry

NextCalls == Mutate \/ Crossover \/ ConfigToTree \/ Flatten \/ Unflatten
SpecCalls == InitCalls /\ [][NextCalls]_vars

(***************************************************************************)
(* Properties of mutation and record-aligned crossover.                    *)
(***************************************************************************)
RECURSIVE ValueAt(_, _)
\* the value a path of (field, index) steps leads to inside a genotype
ValueAt(g, path) ==
    IF Len(path) = 0 THEN g
    ELSE LET s == Head(path)
             x == IF s.k = 0 THEN g.val[s.f] ELSE g.val[s.f][s.k]
         IN  ValueAt(x, Tail(path))
\* the record that owns the field a path ends in, and that field's gene
OwnerAt(g, path) == ValueAt(g, SubSeq(path, 1, Len(path) - 1))
GeneAt(g, path) == GeneOf(OwnerAt(g, path).cls, path[Len(path)].f)

RECURSIVE BoundsOK(_)
\* every scalar gene of g, at any depth, lies within its declared bounds
BoundsOK(g) ==
    \A f \in DOMAIN g.val :
        LET gene == GeneOf(g.cls, f)
            t == FieldType(g.cls, f)
        IN  /\ gene.kind = "Gene" =>
                (gene.min_val <= g.val[f] /\ g.val[f] <= gene.max_val)
            /\ t = "model" => BoundsOK(g.val[f])
            /\ t = "tuple" => \A k \in 1..Len(g.val[f]) : BoundsOK(g.val[f][k])

RECURSIVE LengthsOK(_)
\* every list gene of g, at any depth, has a length within its declared bounds
LengthsOK(g) ==
    \A f \in DOMAIN g.val :
        LET gene == GeneOf(g.cls, f)
            t == FieldType(g.cls, f)
        IN  /\ gene.kind = "GeneList" =>
                (gene.min_len <= Len(g.val[f]) /\ Len(g.val[f]) <= gene.max_len)
            /\ t = "model" => LengthsOK(g.val[f])
            /\ t = "tuple" => \A k \in 1..Len(g.val[f]) : LengthsOK(g.val[f][k])

RECURSIVE FrameEq(_, _)
\* g and o agree on every field that is neither a gene nor below a list gene
FrameEq(g, o) ==
    /\ g.cls = o.cls
    /\ \A f \in DOMAIN g.val :
        LET t == FieldType(g.cls, f)
        IN  \/ GeneOf(g.cls, f).kind # "None"
            \/ /\ t = "model"
               /\ FrameEq(g.val[f], o.val[f])
            \/ /\ t = "tuple"
               /\ Len(g.val[f]) = Len(o.val[f])
               /\ \A k \in 1..Len(g.val[f]) : FrameEq(g.val[f][k], o.val[f][k])
            \/ /\ t \in {"num", "opaque"}
               /\ g.val[f] = o.val[f]

Entries(seq) == {seq[i] : i \in 1..Len(seq)}
Varied == last.op \in {"mutate", "crossover"}

C5_LengthInvariant ==
    /\ LengthsOK(a)
    /\ LengthsOK(b)
    /\ Varied => LengthsOK(last.out)

\* a crossover, second call in a row, of parents whose lists differ in length
C5_Witness ==
    /\ ops = MaxOps
    /\ last.op = "crossover"
    /\ \E e \in Entries(last.ev) : e.lenA # e.lenB

\* C7: the genotype mutate returns agrees with its input on every field that
\* is neither gene-annotated nor located under a list gene.
C7_MutationFrame ==
    last.op = "mutate" => FrameEq(last.args[1], last.out)

\* a mutate call that changed some gene
C7_Witness ==
    /\ last.op = "mutate"
    /\ last.out # last.args[1]
    /\ last.out.val.base.val.mass = last.args[1].val.base.val.mass

\* C10: mutate returns min(hi, max(lo, v + d)) for a scalar gene of value v,
\* bounds [lo, hi] and noise d; with mutation_std = 0 a value 7 in [5, 10]
\* stays 7, and 0.9 with noise +5.0 in [0, 1] becomes 1.0.
C10_ScalarMutationValue ==
    /\ last.op = "mutate" =>
         \A e \in Entries(last.log) :
            LET gene == GeneAt(last.out, e.path)
            IN  /\ e.v = ValueAt(last.args[1], e.path)
                /\ e.d \in {normal(raw, gene.mutation_std) : raw \in Raws}
                /\ ValueAt(last.out, e.path) =
                      Min(gene.max_val, Max(gene.min_val, e.v + e.d))
    /\ \A seed \in Seeds :
         LET probe == <<[cls |-> "Probe", val |-> [x |-> 7 * ONE]]>>
             res == mutate_allele(S0(probe), seed, 1, "x",
                                  Gene(0, 5 * ONE, 10 * ONE), <<>>)
         IN  getattr(res.h, 1, "x") = 7 * ONE
    /\ LET nine_tenths == (9 * ONE) \div 10
           probe == <<[cls |-> "Probe", val |-> [x |-> nine_tenths]]>>
           res == mutate_allele(S0(probe), 1, 1, "x",
                                Gene(5 * ONE, 0, ONE), <<>>)
       IN  /\ res.log[1].d = 5 * ONE
           /\ getattr(res.h, 1, "x") = ONE

\* one mutate call in which one gene moved freely and another was clamped
C10_Witness ==
    /\ last.op = "mutate"
    /\ \E e \in Entries(last.log) :
          LET gene == GeneAt(last.out, e.path)
          IN  e.d # 0 /\ gene.min_val < e.v + e.d /\ e.v + e.d < gene.max_val
    /\ \E e \in Entries(last.log) :
          LET gene == GeneAt(last.out, e.path)
          IN  e.v + e.d < gene.min_val /\ ValueAt(last.out, e.path) = gene.min_val
(***************************************************************************)
(* Properties of the tree projector.                                       *)
(***************************************************************************)
RECURSIVE ListsNonEmpty(_)
\* every list gene of g, at any depth, holds at least one element
ListsNonEmpty(g) ==
    \A f \in DOMAIN g.val :
        LET t == FieldType(g.cls, f)
        IN  /\ GeneOf(g.cls, f).kind = "GeneList" => Len(g.val[f]) > 0
            /\ t = "model" => ListsNonEmpty(g.val[f])
            /\ t = "tuple" =>
                  \A k \in 1..Len(g.val[f]) : ListsNonEmpty(g.val[f][k])

\* C1: for every genotype g whose list genes are all non-empty,
\* tree_to_config(config_to_tree(g)) equals g field for field, every list in
\* its original order and grouping.
C1_TreeRoundTrip ==
    (/\ last.op = "tree_to_config"
     /\ tree.calls = 1
     /\ ListsNonEmpty(tree.of)) => last.out = tree.of

\* the first tree_to_config on the tree of a robot with several fingers, one
\* of them a chain of several segments whose values differ
C1_Witness ==
    /\ last.op = "tree_to_config"
    /\ tree.calls = 1
    /\ ListsNonEmpty(tree.of)
    /\ Len(tree.of.val.fingers) > 1
    /\ \E i \in 1..Len(tree.of.val.fingers) :
          /\ Len(tree.of.val.fingers[i].val.segments) > 1
          /\ tree.of.val.fingers[i].val.segments[1]
                # tree.of.val.fingers[i].val.segments[2]
RECURSIVE SubShape(_, _)
\* the subtree of a shape at a position
SubShape(shape, pos) ==
    IF pos = <<>> THEN shape
    ELSE SubShape(shape.kids[Head(pos)], Tail(pos))

RECURSIVE Positions(_)
\* the positions of the nodes of a shape
Positions(shape) ==
    {<<>>} \cup UNION {{<<k>> \o p : p \in Positions(shape.kids[k])} :
                         k \in 1..Len(shape.kids)}

IsPrefix(p, q) == Len(p) <= Len(q) /\ SubSeq(q, 1, Len(p)) = p

\* the positions of parent B's candidates for the node chosen in parent A
CandidatesOfB ==
    {p \in Positions(last.shapeB) :
        /\ SubShape(last.shapeB, p).cls = SubShape(last.shapeA, last.posA).cls
        /\ last.role = "None" \/ RoleOf(SubShape(last.shapeB, p).cls) = last.role}

\* C9: in the child tree of crossover_tree(A, B, role) every node has the
\* record type parent A has at its position or, at and below the splice, the
\* type of the spliced node of parent B; the spliced node has the type of the
\* node of A it replaces; when B has no candidate of that type the result is
\* parent A unchanged.
C9_SubtreeTypeSafety ==
    last.op = "crossover_tree" =>
        /\ CandidatesOfB = {} => (~last.spliced /\ last.out = last.args[1])
        /\ last.spliced =>
             /\ SubShape(last.shapeB, last.posB).cls
                   = SubShape(last.shapeA, last.posA).cls
             /\ \A p \in Positions(last.shapeChild) :
                   IF IsPrefix(last.posA, p)
                   THEN SubShape(last.shapeChild, p).cls =
                           SubShape(last.shapeB,
                                    last.posB
                                    \o SubSeq(p, Len(last.posA) + 1, Len(p))).cls
                   ELSE /\ p \in Positions(last.shapeA)
                        /\ SubShape(last.shapeChild, p).cls
                              = SubShape(last.shapeA, p).cls

\* a splice below the root that changed the shape of the tree
C9_Witness ==
    /\ last.op = "crossover_tree"
    /\ last.spliced
    /\ last.posA # <<>>
    /\ last.shapeChild # last.shapeA
    /\ SubShape(last.shapeChild, last.posA).kids # <<>>

\* a call in which parent B had no candidate for the chosen node
C9_NoCandidate ==
    /\ last.op = "crossover_tree"
    /\ ~last.spliced
    /\ last.out = last.args[1]

(***************************************************************************)
(* Properties of the genome codec.                                         *)
(***************************************************************************)
RECURSIVE WidthFrom(_, _)
\* the vector length the fields i.. of a record type stand for: 1 per scalar
\* gene, 1 + max_len * (length of an element block) per list gene
WidthFrom(cls, i) ==
    IF i > Len(FieldsOf(cls)) THEN 0
    ELSE (IF GeneOf(cls, FieldsOf(cls)[i]).kind = "Gene" THEN 1
          ELSE IF GeneOf(cls, FieldsOf(cls)[i]).kind = "GeneList"
          THEN 1 + GeneOf(cls, FieldsOf(cls)[i]).max_len
                   * WidthFrom(ItemType(cls, FieldsOf(cls)[i]), 1)
          ELSE 0)
         + WidthFrom(cls, i + 1)

\* C3: every list gene contributes 1 + max_len * (element block length)
\* entries whatever its current length, length 0 included, so every vector
\* flatten_genome returns for a robot has the one length the schema fixes.
C3_FixedWidth ==
    vec.src = "flatten_genome" => Len(vec.v) = WidthFrom(Robot, 1)

\* C2: for every genotype g whose list genes have lengths within their
\* declared bounds, unflatten_genome(flatten_genome(g), g) equals g.
C2_CodecRoundTrip ==
    (/\ last.op = "unflatten_genome"
     /\ vec.of = last.args[1]
     /\ LengthsOK(vec.of))
    => last.out = vec.of

(***************************************************************************)
(* Properties of every operation that takes a genotype.                    *)
(***************************************************************************)
\* C6: mutate, crossover, config_to_tree, flatten_genome and
\* unflatten_genome leave every argument genotype (both parents, the
\* template), read back from the objects the call was given, equal at every
\* depth to what it was before the call.
C6_InputPurity ==
    last.op \in {"mutate", "crossover", "config_to_tree", "flatten_genome",
                 "unflatten_genome"}
    => last.after = last.args

\* a crossover whose child differs from both parents, after a tree has been
\* projected and a vector flattened
C6_Witness ==
    /\ last.op = "crossover"
    /\ last.out # last.args[1]
    /\ last.out # last.args[2]
    /\ tree.root # 0
    /\ vec.src = "flatten_genome"

ChildLists(ga, gb, f) ==
    {CrossoverCall(ga, gb, seed).out.val[f] : seed \in Seeds}

\* prefix of list_a and suffix of list_b at every cut from lo to hi, capped
OnePoint(list_a, list_b, max_len, lo, hi) ==
    {cap(SubSeq(list_a, 1, c) \o SubSeq(list_b, c + 1, Len(list_b)), max_len) :
        c \in lo..hi}

\* C11: for non-empty parent lists A and B of a list gene, the children
\* crossover can produce are exactly the capped A[0..c) ++ B[c..) for the
\* cuts c from 0 to min(len A, len B), both ends included.
C11_OnePointCrossover ==
    (/\ last.op = "crossover"
     /\ Len(last.args[1].val.fingers) > 0
     /\ Len(last.args[2].val.fingers) > 0)
    => ChildLists(last.args[1], last.args[2], "fingers")
       = OnePoint(last.args[1].val.fingers, last.args[2].val.fingers,
                  GeneOf(Robot, "fingers").max_len, 0,
                  Min(Len(last.args[1].val.fingers),
                      Len(last.args[2].val.fingers)))

(***************************************************************************)
(* Properties of the vector layout.                                        *)
(***************************************************************************)
RECURSIVE Concat(_)
\* the sequences of ss, one after the other
Concat(ss) == IF Len(ss) = 0 THEN <<>> ELSE Head(ss) \o Concat(Tail(ss))

\* the block of a segment: its two scalar genes in declaration order
SegmentBlock(sg) ==
    <<Num(float32(sg.val.length)), Num(float32(sg.val.width))>>

\* count, blocks in list order, then NaN for the elements missing up to
\* max_len, each of the length of the first block
ListLayout(blocks, max_len) ==
    <<Num(Len(blocks) * ONE)>> \o Concat(blocks)
    \o [k \in 1..((max_len - Len(blocks)) * Len(blocks[1])) |-> NaN]

\* the block of a finger: the layout of its segments
FingerBlock(fg) ==
    ListLayout([j \in 1..Len(fg.val.segments) |->
                   SegmentBlock(fg.val.segments[j])],
               GeneOf(Finger, "segments").max_len)

\* C12: a list-gene field of length k, 1 <= k <= max_len, with element
\* blocks of length b is flattened to the number k, then the k element
\* blocks in list order, then (max_len - k) * b NaN entries.
C12_CodecLayout ==
    (/\ vec.src = "flatten_genome"
     /\ Len(vec.of.val.fingers) >= 1
     /\ LengthsOK(vec.of))
    => vec.v = ListLayout([i \in 1..Len(vec.of.val.fingers) |->
                              FingerBlock(vec.of.val.fingers[i])],
                          GeneOf(Robot, "fingers").max_len)

\* the vector of a robot with fewer fingers than max_len, one of them with
\* fewer segments than max_len
C12_Witness ==
    /\ vec.src = "flatten_genome"
    /\ Len(vec.of.val.fingers) >= 1
    /\ Len(vec.of.val.fingers) < GeneOf(Robot, "fingers").max_len
    /\ \E i \in 1..Len(vec.of.val.fingers) :
          Len(vec.of.val.fingers[i].val.segments)
              < GeneOf(Finger, "segments").max_len
    /\ \E k \in 1..Len(vec.v) : vec.v[k].nan

(***************************************************************************)
(* Properties of schema handling.                                          *)
(***************************************************************************)
\* C13: a crossover call whose parents have different root record types
\* fails and returns no child, also when the two types share every field
\* name: no call on such parents is ever seen to return.
C13_SchemaMismatch ==
    ~(/\ last.op = "crossover"
      /\ last.args[1].cls # last.args[2].cls)

\* C14: constructing a list-gene annotation with min_len > max_len, or a
\* scalar-gene annotation with min_val > max_val, fails: every annotation
\* construction returns has its bounds in order.
C14_AnnotationValidity ==
    /\ last.op = "Chromosome" => last.out.min_len <= last.out.max_len
    /\ last.op = "Allele" => last.out.min_val <= last.out.max_val

(***************************************************************************)
(* Errors of the codec.                                                    *)
(***************************************************************************)
\* the length of the block flatten_genome returns for the element e alone
BlockLen(e) == Len(FlattenCall(e).out)

RECURSIVE Uneven(_)
\* some list-gene field that flatten_genome reaches in g holds two elements
\* whose blocks differ in length
Uneven(g) ==
    \E f \in DOMAIN g.val :
        /\ GeneOf(g.cls, f).kind = "GeneList"
        /\ FieldType(g.cls, f) = "tuple"
        /\ \/ \E i, j \in 1..Len(g.val[f]) :
                /\ FlattenCall(g.val[f][i]).op = "flatten_genome"
                /\ FlattenCall(g.val[f][j]).op = "flatten_genome"
                /\ BlockLen(g.val[f][i]) # BlockLen(g.val[f][j])
           \/ \E k \in 1..Len(g.val[f]) : Uneven(g.val[f][k])

\* C15: flatten_genome never returns a vector for a genotype in which two
\* elements of one list-gene field flatten to blocks of different lengths,
\* whatever their order, the first block being empty included.
C15_InconsistentRaises ==
    last.op = "flatten_genome" => ~Uneven(last.args[1])

\* the error is raised for blocks of different lengths
C15_Raised ==
    /\ last.op = "raised"
    /\ last.call = "flatten_genome"
    /\ Uneven(last.args[1])

(***************************************************************************)
(* Shape of the projected tree.                                            *)
(***************************************************************************)
\* the children of node n that carry the label f, in order
Labelled(t, n, f) ==
    LET Test(c) == t.nodes[c].field_name = f
    IN  SelectSeq(t.nodes[n].children, Test)

\* the record a node carries
DataOf(t, n) == Read(t.h, t.nodes[n].data)

RECURSIVE IsPath(_, _, _, _, _)
\* from node n on, the elements xs[k..] hang one below the other, each the
\* only child labelled f of the one before
IsPath(t, n, f, xs, k) ==
    IF k > Len(xs) THEN Labelled(t, n, f) = <<>>
    ELSE /\ Len(Labelled(t, n, f)) = 1
         /\ DataOf(t, Labelled(t, n, f)[1]) = xs[k]
         /\ IsPath(t, Labelled(t, n, f)[1], f, xs, k + 1)

\* the elements xs are the children of n labelled f, in list order
IsFan(t, n, f, xs) ==
    /\ Len(Labelled(t, n, f)) = Len(xs)
    /\ \A k \in 1..Len(xs) : DataOf(t, Labelled(t, n, f)[k]) = xs[k]

\* every list gene of the record of node n is laid out by its structure
ListsLaidOut(t, n) ==
    \A f \in DOMAIN DataOf(t, n).val :
        GeneOf(DataOf(t, n).cls, f).kind = "GeneList" =>
            IF GeneOf(DataOf(t, n).cls, f).structure = "CHAIN"
            THEN IsPath(t, n, f, DataOf(t, n).val[f], 1)
            ELSE IsFan(t, n, f, DataOf(t, n).val[f])

\* parent pointers and children lists agree; the root has no parent
ParentsAgree(t) ==
    /\ t.nodes[t.root].parent = 0
    /\ \A n \in 1..Len(t.nodes) :
          /\ \A k \in 1..Len(t.nodes[n].children) :
                t.nodes[t.nodes[n].children[k]].parent = n
          /\ n # t.root =>
                /\ t.nodes[n].parent # 0
                /\ \E k \in 1..Len(t.nodes[t.nodes[n].parent].children) :
                      t.nodes[t.nodes[n].parent].children[k] = n

\* C16: in the tree config_to_tree returns, the n elements of a PARALLEL
\* list gene are n children of the owning node, labelled with the field
\* name, in list order; the elements of a CHAIN list gene form a path below
\* the owning node, each labelled with the field name; every child's parent
\* is the node that lists it and the root's parent is None.
C16_TreeShape ==
    last.op = "config_to_tree" =>
        /\ DataOf(tree, tree.root) = last.args[1]
        /\ \A n \in 1..Len(tree.nodes) : ListsLaidOut(tree, n)
        /\ ParentsAgree(tree)

\* a tree of a robot with two fingers, one of them of two segments
C16_Witness ==
    /\ last.op = "config_to_tree"
    /\ Len(last.args[1].val.fingers) = 2
    /\ \E i \in 1..2 :
          /\ "segments" \in DOMAIN last.args[1].val.fingers[i].val
          /\ Len(last.args[1].val.fingers[i].val.segments) = 2

\* a robot of the 3D form: a base, fingers with an attachment and a chain of
\* segments, every segment with a geometry
IsIsaacForm(g) ==
    /\ g.cls = IsaacRobot
    /\ g.val.base.cls = IsaacBase
    /\ \A i \in 1..Len(g.val.fingers) : g.val.fingers[i].cls = IsaacFinger

RECURSIVE SingleChain(_, _, _, _)
\* node n carries xs[k]; unless it is the last, its children are the node
\* of xs[k + 1] alone, and so on to the last, which has no children
SingleChain(t, n, xs, k) ==
    /\ DataOf(t, n) = xs[k]
    /\ IF k = Len(xs) THEN t.nodes[n].children = <<>>
       ELSE /\ Len(t.nodes[n].children) = 1
            /\ SingleChain(t, t.nodes[n].children[1], xs, k + 1)

\* C17: in the tree of a robot with a base and n fingers, each finger with
\* an attachment and a chain of segments with a geometry each, the root has
\* n + 1 children, every finger node has one child, the head of its chain,
\* every segment node but the last has one child, the next segment, and
\* the last segment node has none.
C17_ChildCounts ==
    (last.op = "config_to_tree" /\ IsIsaacForm(last.args[1])) =>
        /\ Len(tree.nodes[tree.root].children)
              = Len(last.args[1].val.fingers) + 1
        /\ \A i \in 1..Len(last.args[1].val.fingers) :
              /\ Len(tree.nodes[Labelled(tree, tree.root,
                                         "fingers")[i]].children) = 1
              /\ SingleChain(
                     tree,
                     tree.nodes[Labelled(tree, tree.root,
                                         "fingers")[i]].children[1],
                     last.args[1].val.fingers[i].val.segments, 1)

\* the root of such a tree has n + 1 children
C17_RootCount ==
    (last.op = "config_to_tree" /\ IsIsaacForm(last.args[1])) =>
        Len(tree.nodes[tree.root].children)
            = Len(last.args[1].val.fingers) + 1

(***************************************************************************)
(* Frame of the decoder.                                                   *)
(***************************************************************************)
RECURSIVE CountsWithin(_)
\* every list gene of g, at any depth, has min_len..max_len elements
CountsWithin(g) ==
    \A f \in DOMAIN g.val :
        GeneOf(g.cls, f).kind = "GeneList" =>
            /\ Len(g.val[f]) >= GeneOf(g.cls, f).min_len
            /\ Len(g.val[f]) <= GeneOf(g.cls, f).max_len
            /\ \A k \in 1..Len(g.val[f]) : CountsWithin(g.val[f][k])

RECURSIVE TemplateFrame(_, _)
\* every field of out without a gene annotation equals the template's; the
\* elements of a list gene are compared index by index, as far as the
\* template has them
TemplateFrame(out, template) ==
    \A f \in DOMAIN out.val :
        IF GeneOf(out.cls, f).kind = "None"
        THEN out.val[f] = template.val[f]
        ELSE GeneOf(out.cls, f).kind = "GeneList" =>
                \A k \in 1..Min(Len(out.val[f]), Len(template.val[f])) :
                    TemplateFrame(out.val[f][k], template.val[f][k])

\* C18: in the result of unflatten_genome(v, template), for a vector whose
\* counts lie within [min_len, max_len], every field without a gene
\* annotation has the value it has in the template.
C18_TemplateFrame ==
    (last.op = "unflatten_genome" /\ CountsWithin(last.out)) =>
        TemplateFrame(last.out, last.args[1])

\* a vector of another genotype decoded against a template of two fingers
C18_Witness ==
    /\ last.op = "unflatten_genome"
    /\ CountsWithin(last.out)
    /\ Len(last.args[1].val.fingers) = 2
    /\ Len(last.out.val.fingers) = 2
    /\ last.out # last.args[1]

(***************************************************************************)
(* The scenario registry.                                                  *)
(***************************************************************************)
RECURSIVE RegisteredLast(_, _)
\* the class registered last under the name key, None if there is none
RegisteredLast(registered, key) ==
    IF registered = <<>> THEN None
    ELSE IF name_default(config_annotation(registered[Len(registered)])) = key
    THEN registered[Len(registered)]
    ELSE RegisteredLast(SubSeq(registered, 1, Len(registered) - 1), key)

\* the two dictionaries have the same keys, each the default name of the
\* config class stored under it, which is the one of the scenario class
DictsPaired(R) ==
    /\ DOMAIN R._scenarios = DOMAIN R._configs
    /\ \A key \in DOMAIN R._scenarios :
          /\ R._configs[key] = config_annotation(R._scenarios[key])
          /\ key = name_default(R._configs[key])
          /\ R._scenarios[key] = RegisteredLast(R.registered, key)

\* C19: after any sequence of register calls _scenarios and _configs have
\* the same keys, each the default of the name field of the registered
\* class's config model; load(d) with a registered name returns an instance
\* of the scenario class registered last under it, whose config is an
\* instance of the paired config class built from d; load with a missing or
\* unregistered name raises ValueError and leaves both dictionaries as they
\* were.
C19_ScenarioRegistry ==
    /\ DictsPaired(registry)
    /\ last.op = "load" =>
          /\ last.res.out.cls
                = RegisteredLast(registry.registered, last.arg.name)
          /\ last.res.out.config.cls = config_annotation(last.res.out.cls)
          /\ last.res.out.config.data = last.arg
          /\ registry = last.before
    /\ (/\ last.op \in {"load", "raised"}
        /\ last.call = "load"
        /\ last.arg.name \notin DOMAIN last.before._scenarios) =>
          /\ last.op = "raised"
          /\ last.res.raised = "ValueError"
          /\ registry = last.before

\* a load after two classes were registered under one name
C19_Witness ==
    /\ last.op = "load"
    /\ last.arg.name = "dummy_scenario"
    /\ \E i, j \in 1..Len(registry.registered) :
          /\ i < j
          /\ registry.registered[i] # registry.registered[j]
          /\ {registry.registered[i], registry.registered[j]}
                = {"DummyScenario", "DummyScenarioDouble"}

\* a load of a name that is not registered
C19_WitnessUnregistered ==
    /\ last.op = "raised"
    /\ last.call = "load"
    /\ last.arg.name = "unregistered_scenario"
    /\ registry.registered # <<>>

(***************************************************************************)
(* Structural mutation.                                                    *)
(***************************************************************************)
\* the add draw of the list-gene event e fired on a non-empty list shorter
\* than max_len, and the remove draw did not fire
AddAlone(e, g) ==
    /\ e.addFired
    /\ ~e.removeFired
    /\ e.len0 > 0
    /\ e.len0 < GeneAt(g, e.path).max_len

\* C20: when the add draw of a list-gene field fires in a mutate call, the
\* field is non-empty with n < max_len elements and the remove draw does not
\* fire, the field of the returned genotype has n + 1 elements, the last of
\* them of the record type of the originals.
C20_StructuralAdd ==
    last.op = "mutate" =>
        \A k \in 1..Len(last.ev) :
            AddAlone(last.ev[k], last.args[1]) =>
                /\ Len(ValueAt(last.out, last.ev[k].path))
                      = last.ev[k].len0 + 1
                /\ ValueAt(last.out, last.ev[k].path)[last.ev[k].len0 + 1].cls
                      = ValueAt(last.args[1], last.ev[k].path)[1].cls

\* mutate returns every list with the length it had
C20_LengthKept ==
    last.op = "mutate" =>
        \A k \in 1..Len(last.ev) :
            Len(ValueAt(last.out, last.ev[k].path)) = last.ev[k].len0

\* the add step appended an element and the remove step removed none
C20_AddActed ==
    /\ last.op = "mutate"
    /\ \E k \in 1..Len(last.ev) :
          /\ AddAlone(last.ev[k], last.args[1])
          /\ last.ev[k].added
          /\ last.ev[k].len2 = last.ev[k].len0 + 1

\* C21: in one mutate call the add check and the remove check of a list-gene
\* field are evaluated against the length the field had when the call
\* started: a field that enters the call at min_len is never the target of
\* a removal, the add step having fired or not, and a field that enters at
\* max_len is never the target of an add.
C21_EntryLength ==
    last.op = "mutate" =>
        \A k \in 1..Len(last.ev) :
            /\ last.ev[k].removed =>
                  last.ev[k].len0
                      > GeneAt(last.args[1], last.ev[k].path).min_len
            /\ last.ev[k].added =>
                  last.ev[k].len0
                      < GeneAt(last.args[1], last.ev[k].path).max_len

\* the add check alone is evaluated against the entry length
C21_AddCheck ==
    last.op = "mutate" =>
        \A k \in 1..Len(last.ev) :
            last.ev[k].added =>
                last.ev[k].len0
                    < GeneAt(last.args[1], last.ev[k].path).max_len

\* a removal from a list that entered the call at min_len
C21_RemovedAtMin ==
    /\ last.op = "mutate"
    /\ \E k \in 1..Len(last.ev) :
          /\ last.ev[k].removed
          /\ last.ev[k].added
          /\ last.ev[k].len0 = GeneAt(last.args[1], last.ev[k].path).min_len

(***************************************************************************)
(* Integer genes.                                                          *)
(***************************************************************************)
IsInteger(x) == x % ONE = 0

\* C22: for a scalar gene on an int field the value mutate returns is an
\* integer: the clamped value v + noise rounded to the nearest integer, for
\* every noise draw.
C22_IntegralMutation ==
    last.op = "mutate" =>
        \A e \in Entries(last.log) :
            IsIntField(OwnerAt(last.out, e.path).cls, e.path[Len(e.path)].f)
            => /\ IsInteger(ValueAt(last.out, e.path))
               /\ ValueAt(last.out, e.path) =
                     RoundDiv(clip(e.v + e.d,
                                   GeneAt(last.out, e.path).min_val,
                                   GeneAt(last.out, e.path).max_val),
                              ONE) * ONE

\* the value mutate returns for an int field is the clamped v + noise
C22_ClampedOnly ==
    last.op = "mutate" =>
        \A e \in Entries(last.log) :
            ValueAt(last.out, e.path) =
                clip(e.v + e.d, GeneAt(last.out, e.path).min_val,
                     GeneAt(last.out, e.path).max_val)

\* an int field that mutate left at a value with a fraction
C22_Fraction ==
    /\ last.op = "mutate"
    /\ last.out.cls = Counted
    /\ ~IsInteger(last.out.val.count)

\* the value of the entry e of a crossover log lies between the parents'
Between(x, e) == Min(e.va, e.vb) <= x /\ x <= Max(e.va, e.vb)

\* C23: for a scalar gene with parent values a and b and draw alpha,
\* crossover sets the child's value to alpha*a + (1-alpha)*b, rounded to the
\* nearest integer on an int field; the value lies between min(a, b) and
\* max(a, b) inclusive; every scalar gene gets a fresh alpha.
C23_ScalarBlending ==
    last.op = "crossover" =>
        \A k \in 1..Len(last.log) :
            /\ last.log[k].va = ValueAt(last.args[1], last.log[k].path)
            /\ last.log[k].vb = ValueAt(last.args[2], last.log[k].path)
            /\ ValueAt(last.out, last.log[k].path) =
                  blend(last.log[k].raw, last.log[k].va, last.log[k].vb,
                        IsIntField(OwnerAt(last.out, last.log[k].path).cls,
                                   last.log[k].path[Len(last.log[k].path)].f))
            /\ Between(ValueAt(last.out, last.log[k].path), last.log[k])
            /\ last.log[k].raw = Draw(last.seed, k - 1)

\* the blended value of a float field lies between the parents'
C23_FloatBetween ==
    last.op = "crossover" =>
        \A k \in 1..Len(last.log) :
            /\ last.log[k].raw = Draw(last.seed, k - 1)
            /\ ~IsIntField(OwnerAt(last.out, last.log[k].path).cls,
                           last.log[k].path[Len(last.log[k].path)].f)
               => Between(ValueAt(last.out, last.log[k].path), last.log[k])

\* an int field blended from two parents that hold integers
C23_IntegerParents ==
    /\ last.op = "crossover"
    /\ last.out.cls = Counted
    /\ IsInteger(last.args[1].val.count)
    /\ IsInteger(last.args[2].val.count)
    /\ last.args[1].val.count # last.args[2].val.count
    /\ Between(last.out.val.count, last.log[1])

(***************************************************************************)
(* Coverage of mutation.                                                   *)
(***************************************************************************)
RECURSIVE ScalarPaths(_, _)
\* the paths of the scalar-gene fields of every record reachable from g
\* through nested records and the elements of lists
ScalarPaths(g, path) ==
    UNION {IF GeneOf(g.cls, f).kind = "Gene"
           THEN {Append(path, Step(f, 0))}
           ELSE IF FieldType(g.cls, f) = "model"
           THEN ScalarPaths(g.val[f], Append(path, Step(f, 0)))
           ELSE IF FieldType(g.cls, f) = "tuple"
           THEN UNION {ScalarPaths(g.val[f][k], Append(path, Step(f, k))) :
                         k \in 1..Len(g.val[f])}
           ELSE {} : f \in DOMAIN g.val}

\* C24: in one mutate call every scalar gene of every record reachable from
\* the root, through nested records and through the elements of lists, is
\* perturbed by exactly one noise draw: none is skipped, none is perturbed
\* twice.
C24_MutationCoverage ==
    last.op = "mutate" =>
        /\ {last.log[k].path : k \in 1..Len(last.log)}
              = ScalarPaths(last.out, <<>>)
        /\ ScalarPaths(last.out, <<>>) = ScalarPaths(last.args[1], <<>>)
        /\ \A j, k \in 1..Len(last.log) :
              last.log[j].path = last.log[k].path => j = k

\* a mutate call on a robot with a base, two fingers and a finger of two
\* segments
C24_Witness ==
    /\ last.op = "mutate"
    /\ Len(last.args[1].val.fingers) = 2
    /\ Len(last.args[1].val.fingers[2].val.segments) = 2
    /\ Len(last.log) >= 8

(***************************************************************************)
(* Offsets of the decoder.                                                 *)
(***************************************************************************)
RECURSIVE SameGenes(_, _)
\* the genes the vector carries: every list gene of out has the length it
\* has in src and every scalar gene of the record and of the elements of its
\* list genes is the float32 of the value in src
SameGenes(out, src) ==
    \A f \in DOMAIN out.val :
        IF GeneOf(out.cls, f).kind = "Gene"
        THEN out.val[f] = float32(src.val[f])
        ELSE GeneOf(out.cls, f).kind = "GeneList" =>
                /\ Len(out.val[f]) = Len(src.val[f])
                /\ \A k \in 1..Len(out.val[f]) :
                      SameGenes(out.val[f][k], src.val[f][k])

\* C25: when the count entry of a list gene rounds to k, 1 <= k <= max_len,
\* unflatten_genome reads k element blocks and skips the (max_len - k) * b
\* padding entries, so the field consumes 1 + max_len * b entries, the next
\* block is read at the offset flatten_genome wrote it, and the list of the
\* result has k elements.
C25_UnflattenConsumption ==
    (/\ last.op = "unflatten_genome"
     /\ vec.src = "flatten_genome"
     /\ LengthsOK(vec.of))
    => /\ last.flat_array = vec.v
       /\ Len(vec.v) = WidthFrom(vec.of.cls, 1)
       /\ unflatten_recursive(vec.of.cls, vec.v).values = <<>>
       /\ SameGenes(last.out, vec.of)

\* a vector of two fingers, one of them with padding in its block, decoded
\* against a template of one finger
C25_Witness ==
    /\ last.op = "unflatten_genome"
    /\ vec.src = "flatten_genome"
    /\ LengthsOK(vec.of)
    /\ Len(vec.of.val.fingers) = 2
    /\ \E i \in 1..2 : Len(vec.of.val.fingers[i].val.segments) = 1
    /\ Len(last.args[1].val.fingers) = 1
    /\ Len(last.out.val.fingers) = 2

(***************************************************************************)
(* partial_update on plain data: dicts, lists, floats and None.            *)
(***************************************************************************)
PyNone == [t |-> "None"]
PyFloat(v) == [t |-> "float", v |-> v]
PyDict(d) == [t |-> "dict", d |-> d]
PyList(s) == [t |-> "list", s |-> s]

\* utils.py 13 and 21-23: the isinstance tests of _partial_update
both_dicts(template, update) == template.t = "dict" /\ update.t = "dict"
both_lists(template, update) == template.t = "list" /\ update.t = "list"

RECURSIVE partial_update_inner(_, _)
RECURSIVE partial_update_inner_template(_, _)
RECURSIVE partial_update_inner_raises(_, _)

\* the object template after _partial_update(template, update) returned: a
\* dict has its keys assigned (utils.py 14-18), a list keeps its length and
\* its elements, each updated in place (utils.py 25-26); the elements beyond
\* it are built on a copy
partial_update_inner_template(template, update) ==
    IF both_dicts(template, update)
    THEN partial_update_inner(template, update)
    ELSE IF both_lists(template, update)
    THEN PyList([k \in 1..Len(template.s) |->
                    IF k <= Len(update.s)
                    THEN partial_update_inner_template(template.s[k],
                                                       update.s[k])
                    ELSE template.s[k]])
    ELSE template

\* utils.py 37: update if update is not None else template
fallback(template, update) == IF update.t = "None" THEN template ELSE update

\* utils.py 12-37: the value _partial_update(template, update) returns
partial_update_inner(template, update) ==
    IF both_dicts(template, update)
    THEN PyDict([key \in (DOMAIN template.d) \cup (DOMAIN update.d) |->
                    IF key \notin DOMAIN update.d THEN template.d[key]
                    ELSE IF key \in DOMAIN template.d
                    THEN partial_update_inner(template.d[key], update.d[key])
                    ELSE update.d[key]])
    ELSE IF both_lists(template, update)
    THEN PyList([k \in 1..Len(update.s) |->
                    IF k <= Len(template.s)
                    THEN partial_update_inner(template.s[k], update.s[k])
                    ELSE partial_update_inner(
                             partial_update_inner_template(template.s[1],
                                                           update.s[1]),
                             update.s[k])])
    ELSE fallback(template, update)

\* utils.py 28-29: template[0] of an empty list raises IndexError
partial_update_inner_raises(template, update) ==
    IF both_dicts(template, update)
    THEN \E key \in (DOMAIN template.d) \cap (DOMAIN update.d) :
            partial_update_inner_raises(template.d[key], update.d[key])
    ELSE IF both_lists(template, update)
    THEN \/ Len(update.s) > 0 /\ Len(template.s) = 0
         \/ \E k \in 1..Min(Len(template.s), Len(update.s)) :
               partial_update_inner_raises(template.s[k], update.s[k])
         \/ /\ Len(template.s) > 0
            /\ \E k \in (Len(template.s) + 1)..Len(update.s) :
                  partial_update_inner_raises(
                      partial_update_inner_template(template.s[1],
                                                    update.s[1]),
                      update.s[k])
    ELSE FALSE

\* utils.py 39-40: one call of partial_update on a copy of template
PartialUpdateCall(template, updates) ==
    IF partial_update_inner_raises(template, updates)
    THEN [op |-> "raised", call |-> "partial_update",
          args |-> <<template, updates>>]
    ELSE [op |-> "partial_update", args |-> <<template, updates>>,
          out |-> partial_update_inner(template, updates)]

\* the dicts of one list element: the template's have x and y, an update
\* may leave a key out, hold None or bring a key of its own
TemplateItems ==
    [i \in 1..MaxFingers |->
        PyDict([x |-> PyFloat(2 * i - 1), y |-> PyFloat(2 * i)])]
UpdateItems ==
    {PyDict([x |-> PyFloat(5)]),
     PyDict([y |-> PyNone]),
     PyDict([x |-> PyFloat(6), z |-> PyFloat(7)])}
UpdateLists == UNION {[1..n -> UpdateItems] : n \in 0..MaxFingers}

InitMerge ==
    /\ a \in {PyDict([items |-> PyList(SubSeq(TemplateItems, 1, n)),
                      k |-> PyFloat(0)]) : n \in 0..MaxFingers}
    /\ b \in {PyDict([items |-> PyList(s)]) : s \in UpdateLists}
         \cup {PyDict([items |-> PyList(s), k |-> e]) :
                 s \in UpdateLists, e \in {PyNone, PyFloat(5)}}
    /\ last = NoCall
    /\ ops = 0
    /\ tree = NoTree
    /\ vec = NoVec
    /\ registry = NoRegistry

\* partial_update(a, b); the template is copied first, a and b stay
PartialUpdate ==
    /\ ops = 0
    /\ last' = PartialUpdateCall(a, b)
    /\ ops' = ops + 1
    /\ UNCHANGED <<a, b, tree, vec, registry>>

NextMerge == PartialUpdate
SpecMerge == InitMerge /\ [][NextMerge]_vars

RECURSIVE Merged(_, _, _)
\* r is update merged onto template: a key of update carries the value of
\* update, merged when both sides are dicts or both are lists, a key absent
\* from update keeps the template's; a list has the length of update's, an
\* index within the template list merges the two entries, an index beyond it
\* merges update's entry onto a template entry (as it was, or as merged)
Merged(template, update, r) ==
    IF both_dicts(template, update)
    THEN /\ r.t = "dict"
         /\ DOMAIN r.d = (DOMAIN template.d) \cup (DOMAIN update.d)
         /\ \A key \in DOMAIN r.d :
               IF key \notin DOMAIN update.d THEN r.d[key] = template.d[key]
               ELSE IF key \in DOMAIN template.d
               THEN Merged(template.d[key], update.d[key], r.d[key])
               ELSE r.d[key] = update.d[key]
    ELSE IF both_lists(template, update)
    THEN /\ r.t = "list"
         /\ Len(r.s) = Len(update.s)
         /\ \A k \in 1..Len(r.s) :
               IF k <= Len(template.s)
               THEN Merged(template.s[k], update.s[k], r.s[k])
               ELSE \E j \in 1..Len(template.s) :
                       \/ Merged(template.s[j], update.s[k], r.s[k])
                       \/ Merged(r.s[j], update.s[k], r.s[k])
    ELSE r = update

RECURSIVE MergedUnlessNone(_, _, _)
\* as Merged, but a None of update keeps the template's value
MergedUnlessNone(template, update, r) ==
    IF both_dicts(template, update)
    THEN /\ r.t = "dict"
         /\ DOMAIN r.d = (DOMAIN template.d) \cup (DOMAIN update.d)
         /\ \A key \in DOMAIN r.d :
               IF key \notin DOMAIN update.d THEN r.d[key] = template.d[key]
               ELSE IF key \in DOMAIN template.d
               THEN MergedUnlessNone(template.d[key], update.d[key], r.d[key])
               ELSE r.d[key] = update.d[key]
    ELSE IF both_lists(template, update)
    THEN /\ r.t = "list"
         /\ Len(r.s) = Len(update.s)
         /\ \A k \in 1..Len(r.s) :
               IF k <= Len(template.s)
               THEN MergedUnlessNone(template.s[k], update.s[k], r.s[k])
               ELSE \E j \in 1..Len(template.s) :
                       \/ MergedUnlessNone(template.s[j], update.s[k], r.s[k])
                       \/ MergedUnlessNone(r.s[j], update.s[k], r.s[k])
    ELSE r = IF update.t = "None" THEN template ELSE update

\* C26: partial_update(template, updates) returns a structure in which every
\* key of updates carries the updates value (merged recursively when both
\* sides are dicts or lists), every other key keeps the template value, and a
\* merged list has the length of the updates list, index by index, the
\* entries beyond the template's length built on a copy of a template entry.
C26_DeepPartialUpdate ==
    last.op \in {"partial_update", "raised"}
    => /\ last.op = "partial_update"
       /\ Merged(last.args[1], last.args[2], last.out)

\* what the returned structures satisfy: the merge, a None aside
C26_MergedUnlessNone ==
    last.op = "partial_update"
    => MergedUnlessNone(last.args[1], last.args[2], last.out)

\* a call that returns, with entries built beyond the template's list
C26_Returned ==
    /\ last.op = "partial_update"
    /\ Len(last.args[1].d.items.s) = 1
    /\ Len(last.out.d.items.s) = 2

\* an update list against an empty template list
C26_Raised ==
    /\ last.op = "raised"
    /\ Len(last.args[1].d.items.s) = 0

\* a None in updates and nothing else at odds
C26_NoneKept ==
    /\ last.op = "partial_update"
    /\ last.args[2].d.items.s = <<>>
    /\ "k" \in DOMAIN last.args[2].d
    /\ last.args[2].d.k = PyNone
    /\ last.out.d.k = last.args[1].d.k

(***************************************************************************)
(* Elements of a crossed list gene.                                        *)
(***************************************************************************)
\* element i of the child's list is A's element i below the cut and B's
\* element i from the cut on
FromParents(child_list, list_a, list_b, cut) ==
    \A i \in 1..Len(child_list) :
        IF i <= cut
        THEN i <= Len(list_a) /\ child_list[i] = list_a[i]
        ELSE i <= Len(list_b) /\ child_list[i] = list_b[i]

\* C27: every element of a child's list gene is equal, field for field, to
\* parent A's element at the same index (below the cut) or to parent B's
\* element at the same index (from the cut on); no gene inside an element of
\* a list gene is blended or recombined, the genes under non-gene nested
\* records are.
C27_NoBlendingInLists ==
    last.op = "crossover"
    => /\ \A e \in Entries(last.ev) :
             /\ \A k \in 1..Len(e.path) : e.path[k].k = 0
             /\ GeneAt(last.out, e.path).kind = "GeneList"
             /\ \A k \in 1..(Len(e.path) - 1) :
                   GeneAt(last.out, SubSeq(e.path, 1, k)).kind = "None"
             /\ FromParents(ValueAt(last.out, e.path),
                            ValueAt(last.args[1], e.path),
                            ValueAt(last.args[2], e.path), e.cut)
       /\ \A e \in Entries(last.log) :
             /\ \A k \in 1..Len(e.path) : e.path[k].k = 0
             /\ \A k \in 1..(Len(e.path) - 1) :
                   GeneAt(last.out, SubSeq(e.path, 1, k)).kind = "None"
       /\ \E e \in Entries(last.ev) : e.path = <<Step("fingers", 0)>>
       /\ \E e \in Entries(last.log) :
             e.path = <<Step("base", 0), Step("width", 0)>>

\* a child with an element of A before the cut and one of B after it, the
\* two parents differing in the genes of both, and a base gene blended
\* strictly between the parents' values
C27_Witness ==
    /\ last.op = "crossover"
    /\ \E e \in Entries(last.ev) :
          /\ e.cut = 1
          /\ Len(ValueAt(last.out, e.path)) = 2
          /\ ValueAt(last.args[1], e.path)[1] # ValueAt(last.args[2], e.path)[1]
          /\ ValueAt(last.args[1], e.path)[2] # ValueAt(last.args[2], e.path)[2]
          /\ Len(ValueAt(last.args[1], e.path)[2].val.segments)
             # Len(ValueAt(last.args[2], e.path)[2].val.segments)
    /\ \E e \in Entries(last.log) :
          /\ e.va # e.vb
          /\ ValueAt(last.out, e.path) # e.va
          /\ ValueAt(last.out, e.path) # e.vb

(***************************************************************************)
(* Crossover of lists of any length: a robot may have no finger, or one    *)
(* more than max_len.                                                      *)
(***************************************************************************)
WideShapes == {[i \in 1..(MaxFingers + 1) |-> 1]}

InitCross ==
    /\ a \in {RobotOf(shape, 0, 0) : shape \in Shapes \cup {<<>>}}
    /\ b \in {RobotOf(shape, 1, 0) : shape \in Shapes \cup {<<>>} \cup WideShapes}
    /\ last = NoCall
    /\ ops = 0
    /\ tree = NoTree
    /\ vec = NoVec
    /\ registry = NoRegistry

\* b := crossover(b, a)
CrossoverOther ==
    /\ ops < MaxOps
    /\ \E seed \in Seeds :
         /\ last' = CrossoverCall(b, a, seed)
         /\ b' = last'.out
    /\ ops' = ops + 1
    /\ UNCHANGED <<a, tree, vec, registry>>

NextCross == Crossover \/ CrossoverOther
SpecCross == InitCross /\ [][NextCross]_vars

\* C28: when both parents' lists of a list gene are non-empty the child's
\* list has length min(len(B), max_len) whatever the cut, not parent A's
\* length; when either list is empty the child keeps parent A's list.
C28_ChildLength ==
    last.op = "crossover"
    => IF /\ Len(last.args[1].val.fingers) > 0
          /\ Len(last.args[2].val.fingers) > 0
       THEN Len(last.out.val.fingers)
            = Min(Len(last.args[2].val.fingers),
                  GeneOf(Robot, "fingers").max_len)
       ELSE last.out.val.fingers = last.args[1].val.fingers

\* a child of a longer A and a shorter B, cut after A's first element
C28_Witness ==
    /\ last.op = "crossover"
    /\ Len(last.args[1].val.fingers) = 3
    /\ Len(last.args[2].val.fingers) = 2
    /\ Len(last.out.val.fingers) = 2
    /\ \E e \in Entries(last.ev) : e.cut = 1

\* B longer than max_len: the child is cut to max_len
C28_Capped ==
    /\ last.op = "crossover"
    /\ Len(last.args[1].val.fingers) = 1
    /\ Len(last.args[2].val.fingers) = 3
    /\ Len(last.out.val.fingers) = 2

\* B without a finger: the child has A's
C28_EmptyB ==
    /\ last.op = "crossover"
    /\ Len(last.args[1].val.fingers) = 2
    /\ Len(last.args[2].val.fingers) = 0
    /\ Len(last.out.val.fingers) = 2

\* A without a finger: the child has none
C28_EmptyA ==
    /\ last.op = "crossover"
    /\ Len(last.args[1].val.fingers) = 0
    /\ Len(last.args[2].val.fingers) = 2
    /\ Len(last.out.val.fingers) = 0

(***************************************************************************)
(* Genes the vector does not carry.                                        *)
(***************************************************************************)
\* the genotype g with another base record
WithBase(g, base) == [g EXCEPT !.val.base = base]

\* C29: flatten_genome descends only through list genes: two genotypes that
\* differ only in the scalar genes of the base record, a nested record field
\* without annotation, flatten to the same vector, and unflatten_genome takes
\* those genes from the template whatever the vector was flattened from.
C29_CodecBlindness ==
    /\ last.op = "flatten_genome"
       => \A o \in {a, b} :
             /\ FlattenCall(WithBase(last.args[1], o.val.base)).op
                = "flatten_genome"
             /\ FlattenCall(WithBase(last.args[1], o.val.base)).out = last.out
    /\ last.op = "unflatten_genome"
       => /\ last.out.val.base = last.args[1].val.base
          /\ \A o \in {a, b} :
                UnflattenCall(FlattenCall(WithBase(vec.of, o.val.base)).out,
                              last.args[1]).out = last.out

\* a vector flattened from a robot with one base, decoded against a template
\* with another base: the result has the template's base genes
C29_Witness ==
    /\ last.op = "unflatten_genome"
    /\ vec.of.val.base.val.width # last.args[1].val.base.val.width
    /\ vec.of.val.base.val.height # last.args[1].val.base.val.height
    /\ last.out.val.base.val.width = last.args[1].val.base.val.width
    /\ last.out.val.fingers # last.args[1].val.fingers
    /\ FlattenCall(WithBase(vec.of, last.args[1].val.base)).out = vec.v

\* two robots of the population with different bases, one flattened
C29_Flattened ==
    /\ last.op = "flatten_genome"
    /\ a.val.base # b.val.base
    /\ Len(last.out) > 1

(***************************************************************************)
(* What tree_to_config leaves of the tree it is called on.                 *)
(***************************************************************************)
\* the tree as config_to_tree built it, and as one tree_to_config left it
TreeBuilt == ProjectCall(tree.of)
TreeOnce == UnprojectCall(TreeBuilt)

RECURSIVE OwnerOf(_, _)
\* the node whose list the chain of n belongs to: the first node up the
\* parent pointers with another label
OwnerOf(t, n) ==
    IF t.nodes[n].parent = 0 THEN 0
    ELSE IF t.nodes[t.nodes[n].parent].field_name = t.nodes[n].field_name
    THEN OwnerOf(t, t.nodes[n].parent)
    ELSE t.nodes[n].parent

\* n is a node of a CHAIN list after its head
AfterHead(t, n) ==
    /\ t.nodes[n].parent # 0
    /\ t.nodes[t.nodes[n].parent].field_name = t.nodes[n].field_name
    /\ OwnerOf(t, n) # 0
    /\ t.nodes[n].field_name \in DOMAIN t.h[t.nodes[OwnerOf(t, n)].data].val
    /\ GeneOf(TypeOf(t, OwnerOf(t, n)), t.nodes[n].field_name).kind = "GeneList"
    /\ GeneOf(TypeOf(t, OwnerOf(t, n)), t.nodes[n].field_name).structure
       = "CHAIN"

\* some child of n carries the label f
HasChild(t, n, f) ==
    \E k \in 1..Len(t.nodes[n].children) :
        t.nodes[t.nodes[n].children[k]].field_name = f

RECURSIVE ChainsAtMost(_, _)
\* every CHAIN list of g, at any depth, has at most m elements
ChainsAtMost(g, m) ==
    \A f \in DOMAIN g.val :
        /\ (GeneOf(g.cls, f).kind = "GeneList"
            /\ GeneOf(g.cls, f).structure = "CHAIN") => Len(g.val[f]) <= m
        /\ FieldType(g.cls, f) = "model" => ChainsAtMost(g.val[f], m)
        /\ FieldType(g.cls, f) = "tuple" =>
              \A k \in 1..Len(g.val[f]) : ChainsAtMost(g.val[f][k], m)

\* the record of node n holds in its field f the records of the nodes c
InPlace(t, n, f, c) ==
    IF FieldType(TypeOf(t, n), f) = "tuple"
    THEN t.nodes[c].data \in Entries(getattr(t.h, t.nodes[n].data, f))
    ELSE getattr(t.h, t.nodes[n].data, f) = t.nodes[c].data

\* tree.py 53, 92: the record tree_to_config returns is the root's
Returned(t) == Read(t.h, t.nodes[t.root].data)

\* the tree t after a tree_to_config call on the tree before
Consumed(t, before) ==
    /\ \A n \in 1..Len(t.nodes) :
          AfterHead(t, n) =>
             /\ t.nodes[n].parent = TreeBuilt.nodes[n].parent
             /\ n \in Entries(TreeBuilt.nodes[t.nodes[n].parent].children)
             /\ n \notin Entries(t.nodes[t.nodes[n].parent].children)
    /\ \A n \in 1..Len(t.nodes) :
          \A k \in 1..Len(t.nodes[n].children) :
             InPlace(t, n, t.nodes[t.nodes[n].children[k]].field_name,
                     t.nodes[n].children[k])
    /\ \A n \in 1..Len(t.nodes) :
          \A f \in DOMAIN t.h[t.nodes[n].data].val :
             ~HasChild(before, n, f) =>
                Read(t.h, t.nodes[n].data).val[f]
                = Read(TreeBuilt.h, TreeBuilt.nodes[n].data).val[f]

\* C30: tree_to_config consumes its tree: every CHAIN node after the head is
\* removed from its predecessor's children, its parent pointer left set, the
\* records of the nodes are overwritten in place with the records of their
\* children, a second call on the same tree returns every CHAIN list with at
\* most one element, and a node without a child labelled with a field keeps
\* for that field the value its record held when the tree was built.
C30_TreeConsumed ==
    (tree.root # 0 /\ tree.calls >= 1)
    => /\ Len(tree.nodes) = Len(TreeBuilt.nodes)
       /\ last.op = "tree_to_config" => last.out = Returned(tree)
       /\ Consumed(tree, IF tree.calls = 1 THEN TreeBuilt ELSE TreeOnce)
       /\ tree.calls = 1 =>
             \A n \in 1..Len(tree.nodes) :
                AfterHead(tree, n) =>
                   InPlace(tree, OwnerOf(tree, n), tree.nodes[n].field_name, n)
       /\ tree.calls >= 2 => ChainsAtMost(Returned(tree), 1)

\* a second call on the tree of a robot with a finger of two segments: the
\* first call returned both, the second returns one
C30_Witness ==
    /\ tree.root # 0
    /\ tree.calls = 2
    /\ last.op = "tree_to_config"
    /\ \E n \in 1..Len(tree.nodes) : AfterHead(tree, n)
    /\ ~ChainsAtMost(Returned(TreeOnce), 1)
    /\ ChainsAtMost(last.out, 1)
    /\ last.out # tree.of

====
